---- MODULE Spec2Model ----
(***************************************************************************)
(* Model of the BMS polling engine of esp32-bms-monitor: the JBD driver    *)
(* (lib/jbd_bms/jbd_bms.c) and the Daly driver (lib/daly_bms/daly_bms.c).  *)
(*                                                                         *)
(* Units.  The drivers store floats obtained by dividing raw integers by   *)
(* a constant.  The model keeps the raw integers (the division is          *)
(* monotone, so order and equality of the stored values are those of the   *)
(* raw values):                                                            *)
(*   JBD  packVoltage, packCurrent : 1/100 V, 1/100 A; power: 1/10000 W;   *)
(*        cell voltages: mV; temperatures: 1/10 degree C                   *)
(*   Daly packVoltage, packCurrent : 1/10 V, 1/10 A; power: 1/100 W;       *)
(*        packSOC: 1/100 %; cell voltages: mV; temperatures: degree C;     *)
(*        tempAverage: 1/2 degree C                                        *)
(* A poll is a blocking call; the model has one action per transport read  *)
(* of the poll, each action running the code up to the next read.          *)
(* The frame codec, the JBD cell decoder and the Daly step decoders are     *)
(* also called on their own, on arguments drawn in the initial state       *)
(* (SpecCodec).  The main task of main/main.cpp (timer callback, task      *)
(* notification, status report, adaptive polling interval) is modelled     *)
(* with the poll reduced to its outcome (SpecApp, SpecAppLive).            *)
(* The components around the polling engine each have their own            *)
(* specification, the other variables staying as they are:                 *)
(*   SpecLed   status LED task and pixel worker (components/status_led,    *)
(*             components/indicator_pixel)                                 *)
(*   SpecOta   OTA manager (components/ota_manager/ota_manager.c)          *)
(*   SpecWifi  WiFi manager (components/wifi_manager/wifi_manager.c)       *)
(*   SpecSd    SD-card log sink (components/logging/sd_card_log_sink.cpp)  *)
(*   SpecMqtt  MQTT log sink (src/mqtt_log_sink.cpp)                       *)
(***************************************************************************)
EXTENDS Integers, Sequences, FiniteSets, TLC

VARIABLES
    vendor,     \* which driver the session was created with: "JBD" or "DALY"
    pc,         \* position of the polling task inside readMeasurements
    jbd,        \* jbd_bms_handle_t.data
    daly,       \* daly_bms_handle_t.data and .alarm
    tx_buffer,  \* daly_bms_handle_t.tx_buffer (13 bytes, persists between calls)
    retries,    \* local variable retries of jbd_bms_read_data
    sent,       \* frames written to the transport since the poll (or write command) began
    reads,      \* per step, number of transport reads made in the current poll
    valid,      \* steps of the current poll for which some read passed frame validation
    decoded,    \* steps of the current poll whose response was decoded into the data
    result,     \* return value of the last readMeasurements: "none", "ok", "fail"
    prevPeak,   \* peak values when the current poll began
    acc,        \* array indices and response offsets touched by the last decoder or getter
    ret,        \* value returned by the last getter call
    op,         \* the last operation that wrote to the transport
    used,       \* Daly: the counts that bounded this poll's per-cell and per-sensor decoding
    dirty,      \* a poll that has not returned success has changed the driver's data
    arg,        \* codec harness: the function to call and its arguments
    out,        \* codec harness: what the call returned or left in its buffers
    app,        \* the main task of app_main: notification value, position, timer, outputs
    led,        \* status LED: StatusLedImpl snapshot, pending badges, pixel command queue
    ota,        \* OTA manager: status, update task, calls made and their return values
    wifi,       \* WiFi manager: wifi_state_t, event group bits, pending driver events
    sd,         \* SD-card log sink: current file, line counter, date, lines held by each file
    mqtt        \* MQTT log sink: connection, ring buffer, head, tail, count, dropped

vars == <<vendor, pc, jbd, daly, tx_buffer, retries, sent, reads, valid, decoded,
          result, prevPeak, acc, ret, op, used, dirty, arg, out, app,
          led, ota, wifi, sd, mqtt>>

\* The components outside the polling engine and the main task.
sysVars == <<led, ota, wifi, sd, mqtt>>

----------------------------------------------------------------------------
(* Integer helpers *)

Abs(x) == IF x < 0 THEN -x ELSE x

Max(a, b) == IF a > b THEN a ELSE b

Min(a, b) == IF a < b THEN a ELSE b

SetMax(S) == CHOOSE m \in S : \A x \in S : x <= m

SetMin(S) == CHOOSE m \in S : \A x \in S : m <= x

Pow2(k) == 2 ^ k

Bit(v, k) == ((v \div Pow2(k)) % 2) = 1

ToInt16(u) == IF u >= 32768 THEN u - 65536 ELSE u

ToInt8(u) == IF u >= 128 THEN u - 256 ELSE u

\* C arrays are 0-based; a received buffer is cleared before the read, so a
\* byte past the bytes read (but inside the buffer) is 0.
At(buf, i) == IF i + 1 <= Len(buf) THEN buf[i + 1] ELSE 0

Hi(v) == (v \div 256) % 256

Lo(v) == v % 256

\* buf[from] + ... + buf[from + n - 1], summed by halves
RECURSIVE SumBytes(_, _, _)
SumBytes(buf, from, n) ==
    IF n <= 0 THEN 0
    ELSE IF n = 1 THEN At(buf, from)
    ELSE LET h == n \div 2
         IN  SumBytes(buf, from, h) + SumBytes(buf, from + h, n - h)

Rep(n, b) == [i \in 1..n |-> b]

----------------------------------------------------------------------------
(* JBD: constants of jbd_bms.h *)

JBD_MAX_CELLS == 48
JBD_MAX_TEMP_SENSORS == 16
JBD_PKT_START == 221
JBD_PKT_END == 119
JBD_CMD_READ == 165
JBD_CMD_HWINFO == 3
JBD_CMD_CELLINFO == 4
JBD_XFER_BUFFER_LENGTH == 256

_getushort(buf, i) == At(buf, i) * 256 + At(buf, i + 1)

_getshort(buf, i) == ToInt16(_getushort(buf, i))

\* uint16_t crc = 0; crc -= data[i] for len bytes starting at offset from
jbd_crc(buf, from, len) == (65536 - (SumBytes(buf, from, len) % 65536)) % 65536

\* variant: the stop byte is not looked at
jbd_verify_no_end(buf, len, reg) ==
    IF len < 7 THEN FALSE
    ELSE IF At(buf, 0) # JBD_PKT_START THEN FALSE
    ELSE IF At(buf, 1) # reg THEN FALSE
    ELSE LET data_length == At(buf, 3) IN
         IF data_length # len - 7 THEN FALSE
         ELSE jbd_crc(buf, 2, data_length + 2) = _getushort(buf, 4 + data_length)

jbd_verify(buf, len, reg) ==
    IF len < 7 THEN FALSE
    ELSE IF At(buf, 0) # JBD_PKT_START THEN FALSE
    ELSE IF At(buf, 1) # reg THEN FALSE
    ELSE LET data_length == At(buf, 3) IN
         IF data_length # len - 7 THEN FALSE
         ELSE IF jbd_crc(buf, 2, data_length + 2) # _getushort(buf, 4 + data_length) THEN FALSE
         ELSE IF At(buf, 4 + data_length + 2) # JBD_PKT_END THEN FALSE
         ELSE TRUE

\* the frame left in tx_buffer by jbd_cmd, or <<>> when it returns -1
jbd_cmd(action, reg, data) ==
    LET d == IF action = JBD_CMD_READ THEN <<>> ELSE data
        data_len == Len(d)
        body == <<JBD_PKT_START, action, reg, data_len % 256>> \o d
        crc == jbd_crc(body, 2, data_len + 2)
    IN  IF 4 + data_len > JBD_XFER_BUFFER_LENGTH THEN <<>>
        ELSE body \o <<Hi(crc), Lo(crc), JBD_PKT_END>>

jbd_parse_protection(protect_bits) ==
    [sover |-> Bit(protect_bits, 0), sunder |-> Bit(protect_bits, 1),
     gover |-> Bit(protect_bits, 2), gunder |-> Bit(protect_bits, 3),
     chitemp |-> Bit(protect_bits, 4), clowtemp |-> Bit(protect_bits, 5),
     dhitemp |-> Bit(protect_bits, 6), dlowtemp |-> Bit(protect_bits, 7),
     cover |-> Bit(protect_bits, 8), cunder |-> Bit(protect_bits, 9),
     shorted |-> Bit(protect_bits, 10), ic |-> Bit(protect_bits, 11),
     mos |-> Bit(protect_bits, 12)]

JbdDataInit ==
    [packVoltage |-> 0, packCurrent |-> 0, packSOC |-> 0, power |-> 0,
     capacity |-> 0, fullCapacity |-> 0, pctCapacity |-> 0,
     cellCount |-> 0, cellVoltages |-> [i \in 0..(JBD_MAX_CELLS - 1) |-> 0],
     temperatureCount |-> 0,
     temperatures |-> [i \in 0..(JBD_MAX_TEMP_SENSORS - 1) |-> 0],
     minCellVoltage |-> 0, maxCellVoltage |-> 0,
     minCellNumber |-> 0, maxCellNumber |-> 0,
     maxTemperature |-> 0, minTemperature |-> 0,
     balanceBits |-> [low |-> 0, high |-> 0], chargingEnabled |-> FALSE, dischargingEnabled |-> FALSE,
     peakCurrent |-> 0, peakPower |-> 0,
     protection |-> jbd_parse_protection(0)]

\* the temperature loop of jbd_parse_hwinfo.  The loop visits i = 0, 1, ... while
\* i < temperatureCount and i < JBD_MAX_TEMP_SENSORS, and handles the indices whose
\* two bytes lie inside the payload; min/max start at 1000.0 / -1000.0 and follow
\* every handled value.
jbd_temp_loop(d, data, len) ==
    LET is == {i \in 0..(JBD_MAX_TEMP_SENSORS - 1) :
                 i < d.temperatureCount /\ 23 + (i * 2) + 1 < len}
        t == [i \in is |-> _getshort(data, 23 + (i * 2)) - 2731]
    IN  [d EXCEPT
           !.temperatures = [i \in 0..(JBD_MAX_TEMP_SENSORS - 1) |->
                               IF i \in is THEN t[i] ELSE @[i]],
           !.minTemperature = SetMin({d.minTemperature} \cup {t[i] : i \in is}),
           !.maxTemperature = SetMax({d.maxTemperature} \cup {t[i] : i \in is})]

jbd_parse_hwinfo(d, data, len) ==
    IF len < 23 THEN d
    ELSE LET v == _getushort(data, 0)
             c == _getshort(data, 2)
             fet == At(data, 20)
             d1 == [d EXCEPT
                     !.packVoltage = v,
                     !.packCurrent = c,
                     !.capacity = _getushort(data, 4),
                     !.fullCapacity = _getushort(data, 6),
                     !.pctCapacity = At(data, 19),
                     !.packSOC = At(data, 19),
                     !.power = v * c,
                     !.balanceBits = [low |-> _getushort(data, 12), high |-> _getushort(data, 14)],
                     !.protection = jbd_parse_protection(_getushort(data, 16)),
                     !.chargingEnabled = Bit(fet, 0),
                     !.dischargingEnabled = Bit(fet, 1),
                     !.cellCount = At(data, 21),
                     !.temperatureCount = At(data, 22),
                     !.minTemperature = 10000,
                     !.maxTemperature = -10000]
         IN  jbd_temp_loop(d1, data, len)

\* what jbd_parse_hwinfo touches: payload offsets read, temperature indices written
jbd_hwinfo_access(data, len) ==
    LET tc == At(data, 22)
        is == {i \in 0..(JBD_MAX_TEMP_SENSORS - 1) : i < tc /\ 23 + (i * 2) + 1 < len}
    IN  IF len < 23 THEN [rx |-> -1, rxlim |-> len, cell |-> -1, temp |-> -1]
        ELSE [rx |-> SetMax({22} \cup {23 + (i * 2) + 1 : i \in is}), rxlim |-> len,
              cell |-> -1, temp |-> SetMax({-1} \cup is)]

\* the cell loop of jbd_parse_cellinfo.  The loop visits i = 0, 1, ... while
\* i < cellCount and i < JBD_MAX_CELLS, and handles the indices whose two bytes lie
\* inside the payload.  min (max) is replaced only by a strictly smaller (larger)
\* value, so the cell number ends as the first handled index holding the final
\* minimum (maximum), or stays as it was when no value improved on the start value.
jbd_cell_loop(d, data, len) ==
    LET is == {i \in 0..(JBD_MAX_CELLS - 1) : i < d.cellCount /\ (i * 2) + 1 < len}
        mv == [i \in is |-> _getushort(data, i * 2)]
        lo == SetMin({d.minCellVoltage} \cup {mv[i] : i \in is})
        hi == SetMax({d.maxCellVoltage} \cup {mv[i] : i \in is})
    IN  [d EXCEPT
           !.cellVoltages = [i \in 0..(JBD_MAX_CELLS - 1) |->
                               IF i \in is THEN mv[i] ELSE @[i]],
           !.minCellVoltage = lo,
           !.minCellNumber = IF lo < d.minCellVoltage
                             THEN SetMin({i \in is : mv[i] = lo}) + 1 ELSE @,
           !.maxCellVoltage = hi,
           !.maxCellNumber = IF hi > d.maxCellVoltage
                             THEN SetMin({i \in is : mv[i] = hi}) + 1 ELSE @]

jbd_parse_cellinfo(d, data, len) ==
    IF len < d.cellCount * 2 THEN d
    ELSE jbd_cell_loop([d EXCEPT !.minCellVoltage = 5000, !.maxCellVoltage = 0,
                                 !.minCellNumber = 0, !.maxCellNumber = 0],
                       data, len)

jbd_cellinfo_access(d, data, len) ==
    LET is == {i \in 0..(JBD_MAX_CELLS - 1) : i < d.cellCount /\ (i * 2) + 1 < len}
    IN  IF len < d.cellCount * 2 THEN [rx |-> -1, rxlim |-> len, cell |-> -1, temp |-> -1]
        ELSE [rx |-> SetMax({-1} \cup {(i * 2) + 1 : i \in is}), rxlim |-> len,
              cell |-> SetMax({-1} \cup is), temp |-> -1]

\* variant: the absolute value is not taken
jbd_update_peak_values_signed(d) ==
    LET d1 == IF d.packCurrent > d.peakCurrent
              THEN [d EXCEPT !.peakCurrent = d.packCurrent] ELSE d
    IN  IF d.power > d1.peakPower THEN [d1 EXCEPT !.peakPower = d.power] ELSE d1

jbd_update_peak_values(d) ==
    LET abs_current == Abs(d.packCurrent)
        abs_power == Abs(d.power)
        d1 == IF abs_current > d.peakCurrent
              THEN [d EXCEPT !.peakCurrent = abs_current] ELSE d
    IN  IF abs_power > d1.peakPower THEN [d1 EXCEPT !.peakPower = abs_power] ELSE d1

\* jbd_bms_init: the peaks are set to zero
jbd_bms_init(d) == [d EXCEPT !.peakCurrent = 0, !.peakPower = 0]

----------------------------------------------------------------------------
(* JBD: the polling engine *)

\* variant: the loop condition lets a fourth iteration in
jbd_loop_enter_ge(r) == r >= 0

\* the condition of `while (retries-- > 0)` (the decrement is applied by the caller)
jbd_loop_enter(r) == r > 0

\* `if (retries <= 0) return false;` after the HWINFO loop
jbd_hwinfo_exhausted(r) == r <= 0

\* `return (retries > 0);` after the CELLINFO loop
jbd_read_data_result(r) == r > 0

\* variant: the peaks are updated before the result of the read is looked at
jbd_bms_update_always(d, read_ok) == jbd_update_peak_values(d)

\* jbd_bms_update: peaks are updated only when jbd_bms_read_data returned true
jbd_bms_update(d, read_ok) == IF ~read_ok THEN d ELSE jbd_update_peak_values(d)

\* &rx_buffer[4]
JbdPayload(frame) == SubSeq(frame, 5, Len(frame))

NoAcc == [rx |-> -1, rxlim |-> 0, cell |-> -1, temp |-> -1]

\* readMeasurements is entered: HWINFO request is written, the first read is pending
JbdPollStart ==
    /\ vendor = "JBD" /\ pc = "idle"
    /\ sent' = <<jbd_cmd(JBD_CMD_READ, JBD_CMD_HWINFO, <<>>)>>
    /\ retries' = 3 - 1      \* retries = 3; the loop is entered, which decrements
    /\ pc' = "hwinfo"
    /\ reads' = [hw |-> 0, cell |-> 0]
    /\ valid' = {} /\ decoded' = {}
    /\ result' = "none"
    /\ prevPeak' = [current |-> jbd.peakCurrent, power |-> jbd.peakPower]
    /\ acc' = NoAcc /\ ret' = 0
    /\ op' = "poll"
    /\ dirty' = FALSE
    /\ UNCHANGED <<vendor, jbd, daly, tx_buffer, used, arg, out, app, sysVars>>

\* one iteration of the HWINFO read loop, and the code up to the next read
JbdReadHwinfo(frame) ==
    /\ vendor = "JBD" /\ pc = "hwinfo"
    /\ LET bytes_read == Len(frame)
           ok == bytes_read > 0 /\ jbd_verify(frame, bytes_read, JBD_CMD_HWINFO)
           len == At(frame, 3)
           \* the loop is left by the break, or by its condition (which decrements again)
           left == ok \/ ~jbd_loop_enter(retries)
           after == IF ok THEN retries ELSE retries - 1
       IN  /\ reads' = [reads EXCEPT !.hw = @ + 1]
           /\ IF ok
              THEN /\ jbd' = jbd_parse_hwinfo(jbd, JbdPayload(frame), len)
                   /\ acc' = jbd_hwinfo_access(JbdPayload(frame), len)
                   /\ valid' = valid \cup {"HWINFO"}
                   /\ decoded' = IF len < 23 THEN decoded ELSE decoded \cup {"HWINFO"}
              ELSE /\ UNCHANGED <<jbd, valid, decoded>>
                   /\ acc' = NoAcc
           /\ IF ~left
              THEN /\ retries' = after
                   /\ UNCHANGED <<pc, result, sent>>
              ELSE IF jbd_hwinfo_exhausted(after)
              THEN /\ pc' = "idle" /\ result' = "fail"
                   /\ retries' = after
                   /\ UNCHANGED sent
              ELSE /\ sent' = Append(sent, jbd_cmd(JBD_CMD_READ, JBD_CMD_CELLINFO, <<>>))
                   /\ retries' = 3 - 1
                   /\ pc' = "cellinfo"
                   /\ UNCHANGED result
    /\ dirty' = (dirty \/ jbd' # jbd)
    /\ UNCHANGED <<vendor, daly, tx_buffer, prevPeak, ret, op, used, arg, out, app, sysVars>>

\* one iteration of the CELLINFO read loop, and the code up to the return of
\* jbd_bms_update
JbdReadCellinfo(frame) ==
    /\ vendor = "JBD" /\ pc = "cellinfo"
    /\ LET bytes_read == Len(frame)
           ok == bytes_read > 0 /\ jbd_verify(frame, bytes_read, JBD_CMD_CELLINFO)
           len == At(frame, 3)
           left == ok \/ ~jbd_loop_enter(retries)
           after == IF ok THEN retries ELSE retries - 1
           d1 == IF ok THEN jbd_parse_cellinfo(jbd, JbdPayload(frame), len) ELSE jbd
       IN  /\ reads' = [reads EXCEPT !.cell = @ + 1]
           /\ retries' = after
           /\ IF ok
              THEN /\ acc' = jbd_cellinfo_access(jbd, JbdPayload(frame), len)
                   /\ valid' = valid \cup {"CELLINFO"}
                   /\ decoded' = IF len < jbd.cellCount * 2 THEN decoded
                                 ELSE decoded \cup {"CELLINFO"}
              ELSE /\ UNCHANGED <<valid, decoded>>
                   /\ acc' = NoAcc
           /\ IF ~left
              THEN /\ jbd' = d1
                   /\ UNCHANGED <<pc, result>>
              ELSE /\ jbd' = jbd_bms_update(d1, jbd_read_data_result(after))
                   /\ pc' = "idle"
                   /\ result' = IF jbd_read_data_result(after) THEN "ok" ELSE "fail"
    /\ dirty' = (result' # "ok" /\ (dirty \/ jbd' # jbd))
    /\ UNCHANGED <<vendor, daly, tx_buffer, sent, prevPeak, ret, op, used, arg, out, app, sysVars>>

\* a value read from outside an array is whatever the memory there holds
UndefValues == {0, 1}

\* getCellVoltage(cell)
JbdGetCellVoltage(cell) ==
    /\ vendor = "JBD" /\ pc = "idle"
    /\ IF cell >= 0 /\ cell < jbd.cellCount
       THEN /\ acc' = [NoAcc EXCEPT !.cell = cell]
            /\ IF cell < JBD_MAX_CELLS THEN ret' = jbd.cellVoltages[cell]
               ELSE ret' \in UndefValues
       ELSE acc' = NoAcc /\ ret' = 0
    /\ UNCHANGED <<vendor, pc, jbd, daly, tx_buffer, retries, sent, reads, valid,
                   decoded, result, prevPeak, op, used, dirty, arg, out, app, sysVars>>

\* getTemperature(sensor)
JbdGetTemperature(sensor) ==
    /\ vendor = "JBD" /\ pc = "idle"
    /\ IF sensor >= 0 /\ sensor < jbd.temperatureCount
       THEN /\ acc' = [NoAcc EXCEPT !.temp = sensor]
            /\ IF sensor < JBD_MAX_TEMP_SENSORS THEN ret' = jbd.temperatures[sensor]
               ELSE ret' \in UndefValues
       ELSE acc' = NoAcc /\ ret' = 0
    /\ UNCHANGED <<vendor, pc, jbd, daly, tx_buffer, retries, sent, reads, valid,
                   decoded, result, prevPeak, op, used, dirty, arg, out, app, sysVars>>

----------------------------------------------------------------------------
(* JBD: what the transport may deliver to a read *)

\* a response frame as the BMS builds it: start, register, status, length, data, crc, end
JbdResp(reg, data) ==
    LET body == <<JBD_PKT_START, reg, 0, Len(data)>> \o data
        crc == jbd_crc(body, 2, Len(data) + 2)
    IN  body \o <<Hi(crc), Lo(crc), JBD_PKT_END>>

U16(v) == <<Hi(v), Lo(v)>>

\* HWINFO payload: voltage, current, capacities, ..., protection, version, percent,
\* FET bits, cell count, sensor count, one 16-bit value per sensor; cut to plen bytes
JbdHwPayload(v, c, prot, pct, fet, nc, nt, temps, plen) ==
    LET full == U16(v) \o U16(c % 65536) \o U16(1000) \o U16(2000) \o U16(7) \o U16(0)
                \o U16(5) \o U16(0) \o U16(prot) \o <<32, pct, fet, nc, nt>> \o temps
    IN  SubSeq(full, 1, Min(plen, Len(full)))

Temps(n, base) == [i \in 1..(2 * n) |->
                     IF i % 2 = 1 THEN Hi(base + 10 * ((i - 1) \div 2))
                     ELSE Lo(base + 10 * ((i - 1) \div 2))]

JbdHwPayloads ==
    { JbdHwPayload(5000, 250, 0, 80, 3, 4, 2, Temps(2, 2981), 27),
      JbdHwPayload(5000, -300, 4097, 79, 1, 4, 2, Temps(2, 2631), 27),
      JbdHwPayload(5000, 250, 0, 80, 3, 49, 17, Temps(17, 2931), 57),
      JbdHwPayload(5000, 250, 0, 80, 3, 255, 255, <<>>, 23),
      JbdHwPayload(5000, 250, 0, 80, 3, 0, 0, <<>>, 23),
      JbdHwPayload(5200, 400, 0, 90, 3, 4, 2, Temps(2, 2981), 22) }

Cells(n, base, step) == [i \in 1..(2 * n) |->
                           IF i % 2 = 1 THEN Hi(base + step * ((i - 1) \div 2))
                           ELSE Lo(base + step * ((i - 1) \div 2))]

JbdCellPayloads ==
    { Cells(4, 3300, 5), Cells(49, 3200, 1), Cells(3, 3300, 5), <<>> }

JbdFaults == {"timeout", "crc", "start", "end", "length", "short", "register"}

Corrupt(frame, kind) ==
    CASE kind = "timeout"  -> <<>>
      [] kind = "crc"      -> [frame EXCEPT ![Len(frame) - 1] = (@ + 1) % 256]
      [] kind = "start"    -> [frame EXCEPT ![1] = 0]
      [] kind = "end"      -> [frame EXCEPT ![Len(frame)] = 0]
      [] kind = "length"   -> [frame EXCEPT ![4] = (@ + 1) % 256]
      [] kind = "short"    -> SubSeq(frame, 1, 5)
      [] kind = "register" -> [frame EXCEPT ![2] = (@ + 1) % 256]

JbdHwFrames ==
    { JbdResp(JBD_CMD_HWINFO, p) : p \in JbdHwPayloads }
    \cup { Corrupt(JbdResp(JBD_CMD_HWINFO, JbdHwPayload(5000, 250, 0, 80, 3, 4, 2,
                                                         Temps(2, 2981), 27)), k) :
           k \in JbdFaults }

JbdCellFrames ==
    { JbdResp(JBD_CMD_CELLINFO, p) : p \in JbdCellPayloads }
    \cup { Corrupt(JbdResp(JBD_CMD_CELLINFO, Cells(4, 3300, 5)), k) : k \in JbdFaults }

JbdGetterArgs == {-1, 3, 48}

----------------------------------------------------------------------------
(* Daly: constants of daly_bms.h *)

DALY_XFER_BUFFER_LENGTH == 13
DALY_MAX_NUMBER_CELLS == 48
DALY_MAX_NUMBER_TEMP_SENSORS == 16
DALY_CMD_VOUT_IOUT_SOC == 144
DALY_CMD_MIN_MAX_CELL_VOLTAGE == 145
DALY_CMD_MIN_MAX_TEMPERATURE == 146
DALY_CMD_DISCHARGE_CHARGE_MOS_STATUS == 147
DALY_CMD_STATUS_INFO == 148
DALY_CMD_CELL_VOLTAGES == 149
DALY_CMD_CELL_TEMPERATURE == 150
DALY_CMD_CELL_BALANCE_STATE == 151
DALY_CMD_FAILURE_CODES == 152
DALY_CMD_DISCHRG_FET == 217
DALY_CMD_CHRG_FET == 218
DALY_CMD_BMS_RESET == 0

DalyAlarmInit ==
    [levelOneCellVoltageTooHigh |-> FALSE, levelTwoCellVoltageTooHigh |-> FALSE,
     levelOneCellVoltageTooLow |-> FALSE, levelTwoCellVoltageTooLow |-> FALSE,
     levelOnePackVoltageTooHigh |-> FALSE, levelTwoPackVoltageTooHigh |-> FALSE,
     levelOnePackVoltageTooLow |-> FALSE, levelTwoPackVoltageTooLow |-> FALSE,
     levelOneChargeTempTooHigh |-> FALSE, levelTwoChargeTempTooHigh |-> FALSE,
     levelOneChargeTempTooLow |-> FALSE, levelTwoChargeTempTooLow |-> FALSE,
     levelOneDischargeTempTooHigh |-> FALSE, levelTwoDischargeTempTooHigh |-> FALSE,
     levelOneDischargeTempTooLow |-> FALSE, levelTwoDischargeTempTooLow |-> FALSE,
     levelOneChargeCurrentTooHigh |-> FALSE, levelTwoChargeCurrentTooHigh |-> FALSE,
     levelOneDischargeCurrentTooHigh |-> FALSE, levelTwoDischargeCurrentTooHigh |-> FALSE,
     levelOneStateOfChargeTooHigh |-> FALSE, levelTwoStateOfChargeTooHigh |-> FALSE,
     levelOneStateOfChargeTooLow |-> FALSE, levelTwoStateOfChargeTooLow |-> FALSE,
     levelOneCellVoltageDifferenceTooHigh |-> FALSE,
     levelTwoCellVoltageDifferenceTooHigh |-> FALSE,
     levelOneTempSensorDifferenceTooHigh |-> FALSE,
     levelTwoTempSensorDifferenceTooHigh |-> FALSE,
     chargeFETTemperatureTooHigh |-> FALSE, dischargeFETTemperatureTooHigh |-> FALSE,
     failureOfChargeFETTemperatureSensor |-> FALSE,
     failureOfDischargeFETTemperatureSensor |-> FALSE,
     failureOfChargeFETAdhesion |-> FALSE, failureOfDischargeFETAdhesion |-> FALSE,
     failureOfChargeFETTBreaker |-> FALSE, failureOfDischargeFETBreaker |-> FALSE,
     failureOfAFEAcquisitionModule |-> FALSE, failureOfVoltageSensorModule |-> FALSE,
     failureOfTemperatureSensorModule |-> FALSE, failureOfEEPROMStorageModule |-> FALSE,
     failureOfRealtimeClockModule |-> FALSE, failureOfPrechargeModule |-> FALSE,
     failureOfVehicleCommunicationModule |-> FALSE,
     failureOfIntranetCommunicationModule |-> FALSE,
     failureOfCurrentSensorModule |-> FALSE, failureOfMainVoltageSensorModule |-> FALSE,
     failureOfShortCircuitProtection |-> FALSE, failureOfLowVoltageNoCharging |-> FALSE]

\* the handle after calloc: every field zero
DalyDataInit ==
    [packVoltage |-> 0, packCurrent |-> 0, packSOC |-> 0, power |-> 0,
     maxCellmV |-> 0, maxCellVNum |-> 0, minCellmV |-> 0, minCellVNum |-> 0,
     cellDiff |-> 0, tempMax |-> 0, tempMin |-> 0, tempAverage |-> 0,
     chargeFetState |-> FALSE, disChargeFetState |-> FALSE,
     bmsHeartBeat |-> 0, resCapacitymAh |-> 0,
     numberOfCells |-> 0, numOfTempSensors |-> 0,
     chargeState |-> FALSE, loadState |-> FALSE, bmsCycles |-> 0,
     cellVmV |-> [i \in 0..(DALY_MAX_NUMBER_CELLS - 1) |-> 0],
     cellTemperature |-> [i \in 0..(DALY_MAX_NUMBER_TEMP_SENSORS - 1) |-> 0],
     cellBalanceState |-> [i \in 0..(DALY_MAX_NUMBER_CELLS - 1) |-> FALSE],
     cellBalanceActive |-> FALSE,
     peakCurrent |-> 0, peakPower |-> 0,
     alarm |-> DalyAlarmInit]

\* daly_bms_init: start byte, host address, checksum placeholder; peaks zero
daly_bms_init_tx(tx) == [tx EXCEPT ![1] = 165, ![2] = 1, ![13] = 0]

daly_bms_init(d) == [d EXCEPT !.peakCurrent = 0, !.peakPower = 0]

\* variant: the peaks follow the last sample instead of the maximum
daly_bms_update_peak_values_last(d) ==
    [d EXCEPT !.peakCurrent = Abs(d.packCurrent), !.peakPower = Abs(d.power)]

daly_bms_update_peak_values(d) ==
    LET abs_current == Abs(d.packCurrent)
        abs_power == Abs(d.power)
        d1 == IF abs_current > d.peakCurrent
              THEN [d EXCEPT !.peakCurrent = abs_current] ELSE d
    IN  IF abs_power > d1.peakPower THEN [d1 EXCEPT !.peakPower = abs_power] ELSE d1

\* variant: the checksum is summed before the command byte is stored
daly_bms_send_command_stale(tx, cmd_id) ==
    [i \in 1..13 |-> IF i = 3 THEN cmd_id
                     ELSE IF i >= 4 /\ i <= 12 THEN 0
                     ELSE IF i = 13 THEN SumBytes(tx, 0, 12) % 256 ELSE tx[i]]

\* the 13 bytes daly_bms_send_command leaves in tx_buffer and writes to the transport
daly_bms_send_command(tx, cmd_id) ==
    LET t1 == [i \in 1..13 |-> IF i = 3 THEN cmd_id
                               ELSE IF i >= 4 /\ i <= 12 THEN 0 ELSE tx[i]]
    IN  [t1 EXCEPT ![13] = SumBytes(t1, 0, 12) % 256]

\* variant: the checksum loop stops one byte early
daly_bms_receive_bytes_short_sum(rx) ==
    IF Len(rx) = DALY_XFER_BUFFER_LENGTH
    THEN (SumBytes(rx, 0, 11) % 256) = At(rx, 12)
    ELSE FALSE

\* rx is what uart_read_bytes delivered (at most 13 bytes)
daly_bms_receive_bytes(rx) ==
    IF Len(rx) = DALY_XFER_BUFFER_LENGTH
    THEN (SumBytes(rx, 0, 12) % 256) = At(rx, 12)
    ELSE FALSE

\* variant: the SOC is taken in 1/10 % instead of 1/100 %
daly_bms_get_pack_measurements_soc_tenths(d, rx) ==
    IF daly_bms_receive_bytes(rx)
    THEN LET voltage_raw == At(rx, 4) * 256 + At(rx, 5)
             current_raw == ToInt16(At(rx, 8) * 256 + At(rx, 9))
             soc_raw == At(rx, 10) * 256 + At(rx, 11)
         IN  [d EXCEPT !.packVoltage = voltage_raw, !.packCurrent = current_raw,
                       !.packSOC = soc_raw * 10, !.power = voltage_raw * current_raw]
    ELSE d

\* variant: the current is not sign-converted
daly_bms_get_pack_measurements_unsigned(d, rx) ==
    IF daly_bms_receive_bytes(rx)
    THEN LET voltage_raw == At(rx, 4) * 256 + At(rx, 5)
             current_raw == At(rx, 8) * 256 + At(rx, 9)
             soc_raw == At(rx, 10) * 256 + At(rx, 11)
         IN  [d EXCEPT !.packVoltage = voltage_raw, !.packCurrent = current_raw,
                       !.packSOC = soc_raw, !.power = voltage_raw * current_raw]
    ELSE d

\* packVoltage and packCurrent in 1/10 V and 1/10 A, packSOC in 1/100 %, power in
\* 1/100 W
daly_bms_get_pack_measurements(d, rx) ==
    IF daly_bms_receive_bytes(rx)
    THEN LET voltage_raw == At(rx, 4) * 256 + At(rx, 5)
             current_raw == ToInt16(At(rx, 8) * 256 + At(rx, 9))
             soc_raw == At(rx, 10) * 256 + At(rx, 11)
         IN  [d EXCEPT !.packVoltage = voltage_raw, !.packCurrent = current_raw,
                       !.packSOC = soc_raw, !.power = voltage_raw * current_raw]
    ELSE d

daly_bms_get_pack_temp(d, rx) ==
    IF daly_bms_receive_bytes(rx)
    THEN [d EXCEPT !.tempMax = ToInt8(At(rx, 4)), !.tempMin = ToInt8(At(rx, 6)),
                   !.tempAverage = ToInt8(At(rx, 4)) + ToInt8(At(rx, 6))]
    ELSE d

daly_bms_get_min_max_cell_voltage(d, rx) ==
    IF daly_bms_receive_bytes(rx)
    THEN LET max_voltage_raw == At(rx, 4) * 256 + At(rx, 5)
             min_voltage_raw == At(rx, 7) * 256 + At(rx, 8)
         IN  [d EXCEPT !.maxCellmV = max_voltage_raw, !.minCellmV = min_voltage_raw,
                       !.maxCellVNum = At(rx, 6), !.minCellVNum = At(rx, 9),
                       !.cellDiff = max_voltage_raw - min_voltage_raw]
    ELSE d

daly_bms_get_status_info(d, rx) ==
    IF daly_bms_receive_bytes(rx)
    THEN [d EXCEPT !.numberOfCells = At(rx, 4), !.numOfTempSensors = At(rx, 5),
                   !.chargeState = (At(rx, 6) = 1), !.loadState = (At(rx, 7) = 1),
                   !.bmsCycles = At(rx, 10) * 256 + At(rx, 11)]
    ELSE d

\* rx_buffer[k]; an index past the 13-byte buffer reads the byte u that lies there
RxAt(rx, k, u) == IF k < DALY_XFER_BUFFER_LENGTH THEN At(rx, k) ELSE u

\* the triplet loop of daly_bms_get_cell_voltages, from index i on
RECURSIVE daly_cell_loop(_, _, _, _)
daly_cell_loop(d, rx, u, i) ==
    IF ~(i < 3 /\ (i * 3 + 3) <= d.numberOfCells) THEN d
    ELSE LET base_index == 4 + (i * 3) IN
         IF base_index + 2 < DALY_XFER_BUFFER_LENGTH
         THEN daly_cell_loop(
                [d EXCEPT
                   !.cellVmV[i * 3] = RxAt(rx, base_index, u) * 256
                                      + RxAt(rx, base_index + 1, u),
                   !.cellVmV[i * 3 + 1] = RxAt(rx, base_index + 1, u) * 256
                                          + RxAt(rx, base_index + 2, u),
                   !.cellVmV[i * 3 + 2] = RxAt(rx, base_index + 2, u) * 256
                                          + RxAt(rx, base_index + 3, u)],
                rx, u, i + 1)
         ELSE daly_cell_loop(d, rx, u, i + 1)

daly_bms_get_cell_voltages(d, rx, u) ==
    IF daly_bms_receive_bytes(rx) THEN daly_cell_loop(d, rx, u, 0) ELSE d

\* what daly_bms_get_cell_voltages touches: rx_buffer offsets read, cellVmV indices written
daly_cell_voltages_access(d, rx) ==
    LET is == {i \in 0..2 : (i * 3 + 3) <= d.numberOfCells
                            /\ 4 + (i * 3) + 2 < DALY_XFER_BUFFER_LENGTH}
    IN  IF ~daly_bms_receive_bytes(rx) THEN NoAcc
        ELSE [rx |-> SetMax({12} \cup {4 + (i * 3) + 3 : i \in is}),
              rxlim |-> DALY_XFER_BUFFER_LENGTH,
              cell |-> SetMax({-1} \cup {i * 3 + 2 : i \in is}), temp |-> -1]

daly_bms_get_cell_temperature(d, rx) ==
    IF daly_bms_receive_bytes(rx)
    THEN [d EXCEPT !.cellTemperature =
            [i \in 0..(DALY_MAX_NUMBER_TEMP_SENSORS - 1) |->
               IF i < 7 /\ i < d.numOfTempSensors THEN ToInt8(At(rx, 4 + i)) ELSE @[i]]]
    ELSE d

daly_cell_temperature_access(d, rx) ==
    LET is == {i \in 0..6 : i < d.numOfTempSensors}
    IN  IF ~daly_bms_receive_bytes(rx) THEN NoAcc
        ELSE [rx |-> SetMax({12} \cup {4 + i : i \in is}),
              rxlim |-> DALY_XFER_BUFFER_LENGTH,
              cell |-> -1, temp |-> SetMax({-1} \cup is)]

\* bit i of balance_raw = (rx[4] << 24) | (rx[5] << 16) | (rx[6] << 8) | rx[7]
BalanceBit(rx, i) == Bit(At(rx, 7 - (i \div 8)), i % 8)

daly_bms_get_cell_balance_state(d, rx) ==
    IF daly_bms_receive_bytes(rx)
    THEN [d EXCEPT !.cellBalanceState =
            [i \in 0..(DALY_MAX_NUMBER_CELLS - 1) |->
               IF i < 32 /\ i < d.numberOfCells THEN BalanceBit(rx, i) ELSE @[i]],
                   !.cellBalanceActive = (\E k \in 4..7 : At(rx, k) # 0)]
    ELSE d

daly_cell_balance_access(d, rx) ==
    LET is == {i \in 0..31 : i < d.numberOfCells}
    IN  IF ~daly_bms_receive_bytes(rx) THEN NoAcc
        ELSE [rx |-> 12, rxlim |-> DALY_XFER_BUFFER_LENGTH,
              cell |-> SetMax({-1} \cup is), temp |-> -1]

\* only rx_buffer[4] and rx_buffer[5] are parsed; the other flags of the alarm
\* structure are never written
daly_bms_get_failure_codes(d, rx) ==
    IF daly_bms_receive_bytes(rx)
    THEN LET a == At(rx, 4)
             b == At(rx, 5)
         IN  [d EXCEPT !.alarm.levelOneCellVoltageTooHigh = Bit(a, 0),
                       !.alarm.levelTwoCellVoltageTooHigh = Bit(a, 1),
                       !.alarm.levelOneCellVoltageTooLow = Bit(a, 2),
                       !.alarm.levelTwoCellVoltageTooLow = Bit(a, 3),
                       !.alarm.levelOnePackVoltageTooHigh = Bit(a, 4),
                       !.alarm.levelTwoPackVoltageTooHigh = Bit(a, 5),
                       !.alarm.levelOnePackVoltageTooLow = Bit(a, 6),
                       !.alarm.levelTwoPackVoltageTooLow = Bit(a, 7),
                       !.alarm.levelOneChargeTempTooHigh = Bit(b, 0),
                       !.alarm.levelTwoChargeTempTooHigh = Bit(b, 1),
                       !.alarm.levelOneChargeTempTooLow = Bit(b, 2),
                       !.alarm.levelTwoChargeTempTooLow = Bit(b, 3),
                       !.alarm.levelOneDischargeTempTooHigh = Bit(b, 4),
                       !.alarm.levelTwoDischargeTempTooHigh = Bit(b, 5),
                       !.alarm.levelOneDischargeTempTooLow = Bit(b, 6),
                       !.alarm.levelTwoDischargeTempTooLow = Bit(b, 7)]
    ELSE d

daly_bms_get_discharge_charge_mos_status(d, rx) ==
    IF daly_bms_receive_bytes(rx)
    THEN [d EXCEPT !.chargeFetState = (At(rx, 4) = 1),
                   !.disChargeFetState = (At(rx, 5) = 1),
                   !.bmsHeartBeat = At(rx, 6),
                   !.resCapacitymAh = At(rx, 8) * 256 + At(rx, 9)]
    ELSE d

----------------------------------------------------------------------------
(* Daly: the polling engine *)

\* the calls of daly_bms_update, in the order it makes them
DalySteps ==
    << "VOUT_IOUT_SOC", "MIN_MAX_CELL_VOLTAGE", "MIN_MAX_TEMPERATURE", "CELL_VOLTAGES",
       "CELL_TEMPERATURE", "CELL_BALANCE_STATE", "FAILURE_CODES", "STATUS_INFO",
       "DISCHARGE_CHARGE_MOS_STATUS" >>

DalyCmdId(step) ==
    CASE step = "VOUT_IOUT_SOC" -> DALY_CMD_VOUT_IOUT_SOC
      [] step = "MIN_MAX_CELL_VOLTAGE" -> DALY_CMD_MIN_MAX_CELL_VOLTAGE
      [] step = "MIN_MAX_TEMPERATURE" -> DALY_CMD_MIN_MAX_TEMPERATURE
      [] step = "CELL_VOLTAGES" -> DALY_CMD_CELL_VOLTAGES
      [] step = "CELL_TEMPERATURE" -> DALY_CMD_CELL_TEMPERATURE
      [] step = "CELL_BALANCE_STATE" -> DALY_CMD_CELL_BALANCE_STATE
      [] step = "FAILURE_CODES" -> DALY_CMD_FAILURE_CODES
      [] step = "STATUS_INFO" -> DALY_CMD_STATUS_INFO
      [] step = "DISCHARGE_CHARGE_MOS_STATUS" -> DALY_CMD_DISCHARGE_CHARGE_MOS_STATUS

DalyStepSet == {DalySteps[k] : k \in 1..Len(DalySteps)}

StepIndex(step) == CHOOSE k \in 1..Len(DalySteps) : DalySteps[k] = step

\* the receive-and-decode half of the step function called at this position
DalyStepDecode(step, d, rx, u) ==
    CASE step = "VOUT_IOUT_SOC" -> daly_bms_get_pack_measurements(d, rx)
      [] step = "MIN_MAX_CELL_VOLTAGE" -> daly_bms_get_min_max_cell_voltage(d, rx)
      [] step = "MIN_MAX_TEMPERATURE" -> daly_bms_get_pack_temp(d, rx)
      [] step = "CELL_VOLTAGES" -> daly_bms_get_cell_voltages(d, rx, u)
      [] step = "CELL_TEMPERATURE" -> daly_bms_get_cell_temperature(d, rx)
      [] step = "CELL_BALANCE_STATE" -> daly_bms_get_cell_balance_state(d, rx)
      [] step = "FAILURE_CODES" -> daly_bms_get_failure_codes(d, rx)
      [] step = "STATUS_INFO" -> daly_bms_get_status_info(d, rx)
      [] step = "DISCHARGE_CHARGE_MOS_STATUS" -> daly_bms_get_discharge_charge_mos_status(d, rx)

DalyStepAccess(step, d, rx) ==
    CASE step = "CELL_VOLTAGES" -> daly_cell_voltages_access(d, rx)
      [] step = "CELL_TEMPERATURE" -> daly_cell_temperature_access(d, rx)
      [] step = "CELL_BALANCE_STATE" -> daly_cell_balance_access(d, rx)
      [] OTHER -> IF daly_bms_receive_bytes(rx)
                  THEN [rx |-> 12, rxlim |-> DALY_XFER_BUFFER_LENGTH, cell |-> -1, temp |-> -1]
                  ELSE NoAcc

\* variant: the poll is abandoned at any failed step
daly_update_aborts_any(step, ok) == ~ok

\* daly_bms_update returns false only when daly_bms_get_pack_measurements does
daly_update_aborts(step, ok) == step = "VOUT_IOUT_SOC" /\ ~ok

\* no per-cell or per-sensor decoding has run in the current poll
NoUsed == [cells |-> -1, temps |-> -1]

\* readMeasurements is entered: the first command is written, its read is pending
DalyPollStart ==
    /\ vendor = "DALY" /\ pc = "idle"
    /\ tx_buffer' = daly_bms_send_command(tx_buffer, DalyCmdId(DalySteps[1]))
    /\ sent' = <<tx_buffer'>>
    /\ pc' = DalySteps[1]
    /\ valid' = {} /\ decoded' = {}
    /\ result' = "none"
    /\ prevPeak' = [current |-> daly.peakCurrent, power |-> daly.peakPower]
    /\ acc' = NoAcc /\ ret' = 0
    /\ op' = "poll"
    /\ used' = NoUsed
    /\ dirty' = FALSE
    /\ UNCHANGED <<vendor, jbd, daly, retries, reads, arg, out, app, sysVars>>

\* at most this many steps of one Daly poll get no valid response
DalyMaxFaults == 1

\* the pending read of a step completes; the code runs up to the next read or the return
DalyRead(frame, u) ==
    /\ vendor = "DALY" /\ pc \in DalyStepSet
    /\ LET k == StepIndex(pc)
           ok == daly_bms_receive_bytes(frame)
           d1 == DalyStepDecode(pc, daly, frame, u)
       IN  /\ ok \/ (k - 1) - Cardinality(valid) < DalyMaxFaults
           /\ acc' = DalyStepAccess(pc, daly, frame)
           /\ valid' = IF ok THEN valid \cup {pc} ELSE valid
           /\ decoded' = IF ok THEN decoded \cup {pc} ELSE decoded
           /\ used' = IF ok /\ pc = "CELL_VOLTAGES"
                      THEN [used EXCEPT !.cells = daly.numberOfCells]
                      ELSE IF ok /\ pc = "CELL_TEMPERATURE"
                      THEN [used EXCEPT !.temps = daly.numOfTempSensors]
                      ELSE used
           /\ IF daly_update_aborts(pc, ok)
              THEN /\ pc' = "idle" /\ result' = "fail"
                   /\ daly' = d1
                   /\ UNCHANGED <<tx_buffer, sent>>
              ELSE IF k < Len(DalySteps)
              THEN /\ tx_buffer' = daly_bms_send_command(tx_buffer, DalyCmdId(DalySteps[k + 1]))
                   /\ sent' = Append(sent, tx_buffer')
                   /\ pc' = DalySteps[k + 1]
                   /\ daly' = d1
                   /\ UNCHANGED result
              ELSE /\ daly' = daly_bms_update_peak_values(d1)
                   /\ pc' = "idle" /\ result' = "ok"
                   /\ UNCHANGED <<tx_buffer, sent>>
    /\ dirty' = (result' # "ok" /\ (dirty \/ daly' # daly))
    /\ UNCHANGED <<vendor, jbd, retries, reads, prevPeak, ret, op, arg, out, app, sysVars>>

\* memset(&tx_buffer[3], 0, 9); tx_buffer[3] = sw ? 0x01 : 0x00;
daly_preload_flag(tx, sw) ==
    [i \in 1..13 |-> IF i = 4 THEN (IF sw THEN 1 ELSE 0)
                     ELSE IF i >= 5 /\ i <= 12 THEN 0 ELSE tx[i]]

DalyWrite(name, tx) ==
    /\ vendor = "DALY" /\ pc = "idle"
    /\ tx_buffer' = tx
    /\ sent' = <<tx>>
    /\ op' = name
    /\ UNCHANGED <<vendor, pc, jbd, daly, retries, reads, valid, decoded, result,
                   prevPeak, acc, ret, used, dirty, arg, out, app, sysVars>>

daly_bms_set_discharge_mos(sw) ==
    DalyWrite("set_discharge_mos",
              daly_bms_send_command(daly_preload_flag(tx_buffer, sw), DALY_CMD_DISCHRG_FET))

daly_bms_set_charge_mos(sw) ==
    DalyWrite("set_charge_mos",
              daly_bms_send_command(daly_preload_flag(tx_buffer, sw), DALY_CMD_CHRG_FET))

daly_bms_reset ==
    DalyWrite("reset", daly_bms_send_command(tx_buffer, DALY_CMD_BMS_RESET))

\* getCellVoltage(cell)
DalyGetCellVoltage(cell) ==
    /\ vendor = "DALY" /\ pc = "idle"
    /\ IF cell >= 0 /\ cell < daly.numberOfCells
       THEN /\ acc' = [NoAcc EXCEPT !.cell = cell]
            /\ IF cell < DALY_MAX_NUMBER_CELLS THEN ret' = daly.cellVmV[cell]
               ELSE ret' \in UndefValues
       ELSE acc' = NoAcc /\ ret' = 0
    /\ UNCHANGED <<vendor, pc, jbd, daly, tx_buffer, retries, sent, reads, valid,
                   decoded, result, prevPeak, op, used, dirty, arg, out, app, sysVars>>

\* getTemperature(sensor)
DalyGetTemperature(sensor) ==
    /\ vendor = "DALY" /\ pc = "idle"
    /\ IF sensor >= 0 /\ sensor < daly.numOfTempSensors
       THEN /\ acc' = [NoAcc EXCEPT !.temp = sensor]
            /\ IF sensor < DALY_MAX_NUMBER_TEMP_SENSORS THEN ret' = daly.cellTemperature[sensor]
               ELSE ret' \in UndefValues
       ELSE acc' = NoAcc /\ ret' = 0
    /\ UNCHANGED <<vendor, pc, jbd, daly, tx_buffer, retries, sent, reads, valid,
                   decoded, result, prevPeak, op, used, dirty, arg, out, app, sysVars>>

----------------------------------------------------------------------------
(* Daly: what the transport may deliver to a read *)

\* a response frame as the BMS builds it: start, address, command, length, data, checksum
DalyResp(cmd, data) ==
    LET body == <<165, 1, cmd, 8>> \o data
    IN  body \o <<SumBytes(body, 0, 12) % 256>>

DalyData(step) ==
    CASE step = "VOUT_IOUT_SOC" ->
           { U16(520) \o <<0, 0>> \o U16(120) \o U16(800),
             U16(480) \o <<0, 0>> \o U16(65336) \o U16(750) }
      [] step = "MIN_MAX_CELL_VOLTAGE" ->
           { U16(3400) \o <<2>> \o U16(3300) \o <<4, 0, 0>> }
      [] step = "MIN_MAX_TEMPERATURE" -> { <<25, 1, 251, 2, 0, 0, 0, 0>> }
      [] step = "CELL_VOLTAGES" -> { <<1>> \o U16(3300) \o U16(3310) \o U16(3320) \o <<9>> }
      [] step = "CELL_TEMPERATURE" -> { <<1, 65, 66, 67, 68, 69, 70, 71>> }
      [] step = "CELL_BALANCE_STATE" -> { <<0, 0, 0, 5, 0, 0, 0, 0>> }
      [] step = "FAILURE_CODES" -> { <<5, 128, 0, 0, 0, 0, 0, 0>> }
      [] step = "STATUS_INFO" ->
           { <<4, 2, 1, 0, 0, 0, 0, 12>>, <<200, 100, 0, 1, 0, 0, 0, 12>> }
      [] step = "DISCHARGE_CHARGE_MOS_STATUS" -> { <<1, 1, 7, 0>> \o U16(4096) \o <<0, 0>> }

DalyFaults == {"timeout", "checksum", "short"}

DalyCorrupt(frame, kind) ==
    CASE kind = "timeout"  -> <<>>
      [] kind = "checksum" -> [frame EXCEPT ![13] = (@ + 1) % 256]
      [] kind = "short"    -> SubSeq(frame, 1, 12)

DalyFrames(step) ==
    { DalyResp(DalyCmdId(step), data) : data \in DalyData(step) }
    \cup { DalyCorrupt(DalyResp(DalyCmdId(step), Rep(8, 0)), k) : k \in DalyFaults }

\* the frames a read pending at position p may receive
DalyFramesAt(p) == IF p \in DalyStepSet THEN DalyFrames(p) ELSE {}

UndefBytes == {0, 255}

DalyGetterArgs == {-1, 3, 48}

----------------------------------------------------------------------------
(* Codec harness: the frame codec and the decoders, each called on its own *)

JBD_CMD_WRITE == 90

\* a call: the function, a buffer argument (frame, payload or command data), the
\* frame buf was derived from, and the scalar arguments
Arg(fn, buf, base, action, reg, n) ==
    [fn |-> fn, buf |-> buf, base |-> base, action |-> action, reg |-> reg, n |-> n]

\* nothing called yet
NoOut == [fn |-> "none", ok |-> FALSE, buf |-> <<>>, d |-> JbdDataInit]

bmsVars == <<vendor, pc, jbd, daly, tx_buffer, retries, sent, reads, valid, decoded,
             result, prevPeak, acc, ret, op, used, dirty>>

\* daly_bms_receive_bytes with arg.buf being what uart_read_bytes delivers
CallDalyReceiveBytes ==
    /\ out.fn = "none" /\ arg.fn = "daly_bms_receive_bytes"
    /\ out' = [NoOut EXCEPT !.fn = arg.fn, !.ok = daly_bms_receive_bytes(arg.buf)]
    /\ UNCHANGED <<arg, app, sysVars>> /\ UNCHANGED bmsVars

\* jbd_verify(handle, buf, len, reg) on a received buffer of len bytes
CallJbdVerify ==
    /\ out.fn = "none" /\ arg.fn = "jbd_verify"
    /\ out' = [NoOut EXCEPT !.fn = arg.fn,
                            !.ok = jbd_verify(arg.buf, Len(arg.buf), arg.reg)]
    /\ UNCHANGED <<arg, app, sysVars>> /\ UNCHANGED bmsVars

\* jbd_cmd(handle, action, reg, data, data_len), then jbd_verify on the bytes it
\* stored from tx_buffer[0] on (out.buf; more than 256 of them end outside tx_buffer)
CallJbdCmd ==
    /\ out.fn = "none" /\ arg.fn = "jbd_cmd"
    /\ LET frame == jbd_cmd(arg.action, arg.reg, arg.buf)
       IN  out' = [NoOut EXCEPT !.fn = arg.fn, !.buf = frame,
                                !.ok = jbd_verify(frame, Len(frame), arg.reg)]
    /\ UNCHANGED <<arg, app, sysVars>> /\ UNCHANGED bmsVars

\* jbd_parse_cellinfo on a payload, the handle holding cellCount = arg.n
CallJbdParseCellinfo ==
    /\ out.fn = "none" /\ arg.fn = "jbd_parse_cellinfo"
    /\ out' = [NoOut EXCEPT !.fn = arg.fn,
                            !.d = jbd_parse_cellinfo([JbdDataInit EXCEPT !.cellCount = arg.n],
                                                     arg.buf, Len(arg.buf))]
    /\ UNCHANGED <<arg, app, sysVars>> /\ UNCHANGED bmsVars

\* the receive-and-decode half of the Daly step function arg.fn on the response
\* arg.buf, the handle holding arg.n cells and sensors and, when arg.base is a
\* response too, what the same step decoded from it one poll earlier
CallDalyStep(u) ==
    /\ out.fn = "none" /\ arg.fn \in DalyStepSet
    /\ LET d0 == [DalyDataInit EXCEPT !.numberOfCells = arg.n, !.numOfTempSensors = arg.n]
           d1 == IF arg.base = <<>> THEN d0 ELSE DalyStepDecode(arg.fn, d0, arg.base, u)
       IN  out' = [NoOut EXCEPT !.fn = arg.fn, !.ok = daly_bms_receive_bytes(arg.buf),
                                !.d = DalyStepDecode(arg.fn, d1, arg.buf, u)]
    /\ UNCHANGED <<arg, app, sysVars>> /\ UNCHANGED bmsVars

\* frame with the byte at 0-based offset p replaced by v
SetByte(frame, p, v) == [frame EXCEPT ![p + 1] = v]

\* each valid response a Daly poll may receive; one byte of it changed; two bytes
\* changed so that the sum is kept; fewer than 13 bytes of it delivered
DalyRxArgs ==
    LET DalyValidFrames ==
            UNION { { DalyResp(DalyCmdId(s), data) : data \in DalyData(s) } :
                    s \in DalyStepSet }
        variants(b) ==
            {b}
            \cup { SetByte(b, p, (At(b, p) + k) % 256) : p \in 0..12, k \in {1, 128} }
            \cup { SetByte(SetByte(b, 4, (At(b, 4) + 1) % 256), 5, (At(b, 5) + 255) % 256) }
            \cup { SubSeq(b, 1, n) : n \in {0, 1, 12} }
    IN  UNION { { Arg("daly_bms_receive_bytes", f, b, 0, 0, 0) : f \in variants(b) } :
                b \in DalyValidFrames }

\* a valid frame; one byte of it changed; one byte less or more delivered; checked
\* against either register
JbdVerifyArgs ==
    LET JbdValidFrames ==
            { JbdResp(JBD_CMD_HWINFO,
                      JbdHwPayload(5000, 250, 0, 80, 3, 4, 2, Temps(2, 2981), 27)),
              JbdResp(JBD_CMD_CELLINFO, Cells(4, 3300, 5)),
              JbdResp(JBD_CMD_CELLINFO, <<>>) }
        variants(b) ==
            {b}
            \cup { SetByte(b, p, (At(b, p) + 1) % 256) : p \in 0..(Len(b) - 1) }
            \cup { Corrupt(b, k) : k \in JbdFaults }
            \cup { SubSeq(b, 1, Len(b) - 1), b \o <<0>> }
    IN  UNION { { Arg("jbd_verify", f, b, 0, reg, 0) :
                  f \in variants(b), reg \in {JBD_CMD_HWINFO, JBD_CMD_CELLINFO} } :
                b \in JbdValidFrames }

JbdCmdArgs ==
    { Arg("jbd_cmd", data, <<>>, action, reg, 0) :
        action \in {JBD_CMD_READ, JBD_CMD_WRITE},
        reg \in {JBD_CMD_HWINFO, JBD_CMD_CELLINFO, JBD_CMD_READ},
        data \in {<<>>, <<1, 2>>, Rep(249, 1), Rep(250, 1), Rep(252, 1), Rep(253, 1)} }

\* arrays of at most this many cells are decoded
CodecMaxCells == 3

\* payloads of n cells; cell values in mV: none, ordinary, the 5.0 V start value
\* of the minimum, above it
JbdCellArgs ==
    LET CellValues == {0, 3300, 3400, 5000, 5100}
        CellBytes(a) == [i \in 1..(2 * Len(a)) |->
                           IF i % 2 = 1 THEN Hi(a[(i + 1) \div 2]) ELSE Lo(a[i \div 2])]
    IN  UNION { { Arg("jbd_parse_cellinfo", CellBytes(a), <<>>, 0, 0, n) :
                  a \in [1..n -> CellValues] } : n \in 0..CodecMaxCells }

\* the cell and sensor counts a Daly handle may hold when a step decodes
DalyCountArgs == {0, 2, 3, 4, 7, 9, 10}

\* responses to single Daly steps: pack measurements over the range of each field
\* (and the frame A5 90 00 00 01 F4 00 00 00 32 01 F4); alarm bytes with one bit, every
\* bit or no bit set, after a poll that saw every bit or none; cell and sensor
\* frames of nonzero bytes for each count; a valid answer to another command
DalyStepArgs ==
    LET vout == { U16(v) \o <<0, 0>> \o U16(c) \o U16(soc) :
                    v \in {0, 500, 65535}, c \in {0, 50, 32767, 32768, 65336, 65535},
                    soc \in {0, 500, 1000} }
        nominal == <<165, 144, 0, 0, 1, 244, 0, 0, 0, 50, 1, 244>>
        alarms == { Rep(8, 0), Rep(7, 255) \o <<0>> }
                  \cup { [i \in 1..8 |-> IF i = k THEN b ELSE 0] : k \in 1..7, b \in {1, 128} }
        all == DalyResp(DALY_CMD_FAILURE_CODES, Rep(7, 255) \o <<0>>)
        cells == DalyResp(DALY_CMD_CELL_VOLTAGES,
                          <<1>> \o U16(3300) \o U16(3310) \o U16(3320) \o <<9>>)
        temps == DalyResp(DALY_CMD_CELL_TEMPERATURE, <<1, 65, 66, 67, 68, 69, 200, 71>>)
        others == { DalyResp(DALY_CMD_MIN_MAX_CELL_VOLTAGE,
                             U16(3400) \o <<2>> \o U16(3300) \o <<4, 0, 0>>),
                    DalyResp(DALY_CMD_DISCHRG_FET, <<1, 0, 0, 0, 0, 0, 0, 0>>) }
    IN  { Arg("VOUT_IOUT_SOC", DalyResp(DALY_CMD_VOUT_IOUT_SOC, data), <<>>, 0, 0, 0) :
            data \in vout }
        \cup { Arg("VOUT_IOUT_SOC", nominal \o <<SumBytes(nominal, 0, 12) % 256>>,
                   <<>>, 0, 0, 0) }
        \cup { Arg("FAILURE_CODES", DalyResp(DALY_CMD_FAILURE_CODES, data), base, 0, 0, 0) :
                 data \in alarms, base \in {<<>>, all} }
        \cup { Arg("CELL_VOLTAGES", cells, <<>>, 0, 0, n) : n \in DalyCountArgs }
        \cup { Arg("CELL_TEMPERATURE", temps, <<>>, 0, 0, n) : n \in DalyCountArgs }
        \cup { Arg(fn, f, <<>>, 0, 0, 0) :
                 fn \in {"VOUT_IOUT_SOC", "STATUS_INFO"}, f \in others }

CodecArgs == DalyRxArgs \cup JbdVerifyArgs \cup JbdCmdArgs \cup JbdCellArgs
             \cup DalyStepArgs

----------------------------------------------------------------------------
(* The main task of main.cpp: timer callback, notification, adaptive polling *)

INTERVAL_IDLE_MS == 10000
INTERVAL_ACTIVE_MS == 1000
\* 0.5 A in 1/100 A, 10.0 W in 1/10000 W
THRESHOLD_CURRENT_A == 50
THRESHOLD_POWER_W == 100000
NOTIFY_READ_BMS == 1

\* timer callbacks since the task last woke are counted up to this many
AppMaxTicks == 2

\* consecutive failed polls are counted up to this many
AppMaxFails == 3

\* app_main when it enters its loop: the timer runs at the idle period, the initial
\* xTaskNotify has been made, no LED report and no snapshot yet.
\*   value, pc: the task's notification value; "wait" in xTaskNotifyWait, "poll" in
\*     readMeasurements
\*   interval, timer: g_current_interval_ms; the period the running timer was started with
\*   led: the last bms_led_metrics_t given to status_led_notify_bms
\*   last: outcome of the last readMeasurements and the getter values read after it
\*   restarted, logged: in the last cycle, the timer was stopped and started again;
\*     snapshots given to LOG_SEND
\*   inflight: calls of readMeasurements that have not returned
\*   ticks, sinceTick, fails: timer callbacks since the task last woke; polls begun
\*     since the last notification was posted; consecutive failed polls
AppInit ==
    [value |-> NOTIFY_READ_BMS, pc |-> "wait",
     interval |-> INTERVAL_IDLE_MS, timer |-> INTERVAL_IDLE_MS,
     led |-> [valid |-> FALSE, comm_ok |-> FALSE],
     last |-> [result |-> "none", current |-> 0, power |-> 0],
     restarted |-> FALSE, logged |-> 0, inflight |-> 0,
     ticks |-> 0, sinceTick |-> 0, fails |-> 0, wifi_check_counter |-> 0]

\* xTaskNotify(..., bits, eSetBits) with bits a single bit
xTaskNotify_eSetBits(value, bits) ==
    IF (value \div bits) % 2 = 1 THEN value ELSE value + bits

\* variant: xTaskNotifyWait leaves the value as it is on exit
xTaskNotifyWait_keep(value) == value

\* what xTaskNotifyWait(0, ULONG_MAX, ...) leaves in the notification value on exit
xTaskNotifyWait_exit(value) == 0

\* variant: the thresholds count as active
is_active_inclusive(current, power) ==
    Abs(current) >= THRESHOLD_CURRENT_A \/ Abs(power) >= THRESHOLD_POWER_W

is_active(current, power) ==
    Abs(current) > THRESHOLD_CURRENT_A \/ Abs(power) > THRESHOLD_POWER_W

update_polling_rate(a, new_interval_ms) ==
    IF new_interval_ms # a.interval
    THEN [a EXCEPT !.timer = new_interval_ms, !.interval = new_interval_ms,
                   !.restarted = TRUE]
    ELSE a

\* variant: a failed poll is not reported
poll_failed_silent(a) == a

\* the else branch of the loop: the LED is told of the fault, nothing else
poll_failed(a) == [a EXCEPT !.led = [valid |-> TRUE, comm_ok |-> FALSE]]

\* the success branch: LED report, snapshot to the sinks, adaptive polling
poll_succeeded(a, current, power) ==
    update_polling_rate(
        [a EXCEPT !.led = [valid |-> TRUE, comm_ok |-> TRUE], !.logged = @ + 1],
        IF is_active(current, power) THEN INTERVAL_ACTIVE_MS ELSE INTERVAL_IDLE_MS)

\* the esp_timer fires: the callback posts the notification and returns
periodic_timer_callback ==
    /\ app' = [app EXCEPT !.value = xTaskNotify_eSetBits(@, NOTIFY_READ_BMS),
                          !.ticks = Min(@ + 1, AppMaxTicks),
                          !.sinceTick = 0]
    /\ UNCHANGED <<arg, out, sysVars>> /\ UNCHANGED bmsVars

\* xTaskNotifyWait returns; without the NOTIFY_READ_BMS bit the loop continues,
\* with it readMeasurements is entered
AppWake ==
    /\ app.pc = "wait" /\ app.value # 0
    /\ LET notified_value == app.value
           a == [app EXCEPT !.value = xTaskNotifyWait_exit(@), !.ticks = 0]
       IN  app' = IF (notified_value \div NOTIFY_READ_BMS) % 2 = 0 THEN a
                  ELSE [a EXCEPT !.pc = "poll", !.inflight = @ + 1,
                                 !.sinceTick = Min(@ + 1, 2),
                                 !.restarted = FALSE, !.logged = 0]
    /\ UNCHANGED <<arg, out, sysVars>> /\ UNCHANGED bmsVars

\* readMeasurements returns ok, the getters giving this pack voltage (1/100 V) and
\* current (1/100 A) and their product as power; the rest of the loop body runs
AppPollEnd(ok, voltage, current) ==
    /\ app.pc = "poll"
    /\ LET power == voltage * current
           a == IF ok THEN poll_succeeded(app, current, power) ELSE poll_failed(app)
       IN  app' = [a EXCEPT
                     !.pc = "wait", !.inflight = @ - 1,
                     !.last = IF ok THEN [result |-> "ok", current |-> current,
                                          power |-> power]
                              ELSE [result |-> "fail", current |-> 0, power |-> 0],
                     !.fails = IF ok THEN 0 ELSE Min(@ + 1, AppMaxFails),
                     !.wifi_check_counter = IF @ + 1 >= 10 THEN 0 ELSE @ + 1]
    /\ UNCHANGED <<arg, out, sysVars>> /\ UNCHANGED bmsVars

\* pack voltage and current a successful poll may have read: at rest, below, at
\* and above each threshold, charging and discharging
AppSamples ==
    { <<5200, 0>>, <<5200, 15>>, <<2000, 50>>, <<2001, 50>>, <<2000, 51>>,
      <<1200, 60>>, <<1200, -60>>, <<5200, -15>>, <<5200, -30>>, <<2000, -50>> }

----------------------------------------------------------------------------
(* Status LED: the task of components/status_led/status_led.cpp, the       *)
(* pattern table of led_patterns.cpp and the worker task of                *)
(* components/indicator_pixel/indicator_pixel.cpp.  Temperatures are in    *)
(* degree C, the state of charge in %, the cell delta in 1/100 V.  An      *)
(* event given to status_led_notify_* is handed to the iteration of run_   *)
(* that receives it; an iteration without event is the 100 ms timeout of   *)
(* xQueueReceive.                                                          *)

SOC_WARN_PCT == 20
CELL_DELTA_WARN_V == 20
TEMP_WARN_C == 55
TEMP_CRIT_C == 70

kOTA_IDLE == 0
kOTA_CHECKING == 1
kOTA_DOWNLOADING == 2
kOTA_INSTALLING == 3
kOTA_FAILED == 5
kOTA_ROLLBACK == 6

\* length of the pixel's command queue
PIXEL_QUEUE_LEN == 8

\* status_led_config_t.brightness given by app_main
LED_BRIGHTNESS == 64

\* pending badges beyond which the model stops feeding events
LedMaxBadges == 2

\* commands the pixel's worker may have left unread when run_ iterates again
LedMaxQueued == 0

DesiredIndicator(pattern, r, g, b) == [pattern |-> pattern, r |-> r, g |-> g, b |-> b]

scale_ch(v, brightness) == Min((v * brightness + 127) \div 255, 255)

make_rgb(r, g, b, brightness) ==
    <<scale_ch(r, brightness), scale_ch(g, brightness), scale_ch(b, brightness)>>

Command(kind, color, period_ms, repeat) ==
    [kind |-> kind, color |-> color, period_ms |-> period_ms, repeat |-> repeat]

NoCommand == Command("NONE", <<0, 0, 0>>, 0, 0)

\* xQueueSend on the pixel's queue: the command is lost when the queue is full
\* (the 10 ms wait of the animation commands is taken to expire)
xQueueSend_pixel(cmds, c) == IF Len(cmds) < PIXEL_QUEUE_LEN THEN Append(cmds, c) ELSE cmds

SinglePixel_stop(cmds) == xQueueSend_pixel(cmds, Command("STOP", <<0, 0, 0>>, 0, 0))

SinglePixel_set_color(cmds, c) ==
    xQueueSend_pixel(SinglePixel_stop(cmds), Command("SET_COLOR", c, 0, 0))

SinglePixel_blink(cmds, c, period_ms, repeat) ==
    IF period_ms = 0 THEN cmds
    ELSE xQueueSend_pixel(SinglePixel_stop(cmds), Command("BLINK", c, period_ms, repeat))

SinglePixel_breathe(cmds, c, cycle_ms, repeat) ==
    xQueueSend_pixel(SinglePixel_stop(cmds), Command("BREATHE", c, cycle_ms, repeat))

SinglePixel_fade_sequence(cmds, transition_ms, repeat) ==
    xQueueSend_pixel(SinglePixel_stop(cmds),
                     Command("FADE_SEQ", make_rgb(255, 0, 0, LED_BRIGHTNESS),
                             transition_ms, repeat))

apply_pattern(cmds, brightness, d) ==
    CASE d.pattern = "OFF" -> SinglePixel_set_color(cmds, <<0, 0, 0>>)
      [] d.pattern = "SOLID" ->
            SinglePixel_set_color(cmds, make_rgb(d.r, d.g, d.b, brightness))
      [] d.pattern = "SLOW_PULSE" ->
            SinglePixel_blink(cmds, make_rgb(d.r, d.g, d.b, brightness), 1000, -1)
      [] d.pattern = "FAST_BLINK" ->
            SinglePixel_blink(cmds, make_rgb(d.r, d.g, d.b, brightness), 200, -1)
      [] d.pattern = "BREATHE" ->
            SinglePixel_breathe(cmds, make_rgb(d.r, d.g, d.b, brightness), 2000, -1)
      [] d.pattern = "RAINBOW" -> SinglePixel_fade_sequence(cmds, 500, -1)
      [] OTHER -> SinglePixel_set_color(cmds, <<0, 0, 0>>)

\* a healthy pack, as status_led_notify_bms receives it from the main task
LedHealthy ==
    [valid |-> TRUE, comm_ok |-> TRUE, ov_critical |-> FALSE, uv_critical |-> FALSE,
     mosfet_fault |-> FALSE, max_temp_c |-> 25, soc_pct |-> 80, cell_delta_v |-> 5]

\* the state after status_led_init with boot_animation: the rainbow has been
\* handed to the pixel without being recorded in snap_.last
LedInit ==
    [override_active |-> FALSE, ov |-> DesiredIndicator("OFF", 0, 0, 0),
     have_ota |-> FALSE, ota_status |-> kOTA_IDLE,
     have_bms |-> FALSE, bms |-> [LedHealthy EXCEPT !.valid = FALSE],
     last |-> DesiredIndicator("OFF", 0, 0, 0),
     pending_badges |-> <<>>,
     boot_anim_active |-> TRUE,
     cmds |-> apply_pattern(<<>>, LED_BRIGHTNESS, DesiredIndicator("RAINBOW", 0, 0, 0)),
     running |-> "NONE", cur |-> NoCommand,
     sel |-> [kind |-> "none", di |-> DesiredIndicator("OFF", 0, 0, 0)]]

is_animating(l) == l.running # "NONE"

\* variant of compute_takeover_ that tests the MOSFET fault before the
\* critical temperature
compute_takeover_mosfet_first(l) ==
    LET hit(p, r, g, b) == [active |-> TRUE, di |-> DesiredIndicator(p, r, g, b)]
    IN  CASE l.have_ota /\ l.ota_status \in {kOTA_FAILED, kOTA_ROLLBACK} ->
                hit("FAST_BLINK", 128, 0, 128)
          [] OTHER ->
             IF ~l.have_bms THEN [active |-> FALSE, di |-> DesiredIndicator("OFF", 0, 0, 0)]
             ELSE IF ~l.bms.comm_ok THEN hit("FAST_BLINK", 255, 0, 0)
             ELSE IF l.bms.ov_critical \/ l.bms.uv_critical THEN hit("SOLID", 255, 0, 0)
             ELSE IF l.bms.mosfet_fault THEN hit("FAST_BLINK", 255, 0, 0)
             ELSE IF l.bms.max_temp_c >= TEMP_CRIT_C THEN hit("SLOW_PULSE", 255, 0, 0)
             ELSE IF l.bms.soc_pct >= 0 /\ l.bms.soc_pct < SOC_WARN_PCT
                  THEN hit("SLOW_PULSE", 255, 165, 0)
             ELSE IF l.bms.cell_delta_v > CELL_DELTA_WARN_V
                  THEN hit("FAST_BLINK", 255, 165, 0)
             ELSE IF l.bms.max_temp_c >= TEMP_WARN_C /\ l.bms.max_temp_c < TEMP_CRIT_C
                  THEN hit("BREATHE", 255, 165, 0)
             ELSE [active |-> FALSE, di |-> DesiredIndicator("OFF", 0, 0, 0)]

compute_takeover_(l) ==
    LET hit(p, r, g, b) == [active |-> TRUE, di |-> DesiredIndicator(p, r, g, b)]
    IN  CASE l.have_ota /\ l.ota_status \in {kOTA_FAILED, kOTA_ROLLBACK} ->
                hit("FAST_BLINK", 128, 0, 128)
          [] OTHER ->
             IF ~l.have_bms THEN [active |-> FALSE, di |-> DesiredIndicator("OFF", 0, 0, 0)]
             ELSE IF ~l.bms.comm_ok THEN hit("FAST_BLINK", 255, 0, 0)
             ELSE IF l.bms.ov_critical \/ l.bms.uv_critical THEN hit("SOLID", 255, 0, 0)
             ELSE IF l.bms.max_temp_c >= TEMP_CRIT_C THEN hit("SLOW_PULSE", 255, 0, 0)
             ELSE IF l.bms.mosfet_fault THEN hit("FAST_BLINK", 255, 0, 0)
             ELSE IF l.bms.soc_pct >= 0 /\ l.bms.soc_pct < SOC_WARN_PCT
                  THEN hit("SLOW_PULSE", 255, 165, 0)
             ELSE IF l.bms.cell_delta_v > CELL_DELTA_WARN_V
                  THEN hit("FAST_BLINK", 255, 165, 0)
             ELSE IF l.bms.max_temp_c >= TEMP_WARN_C /\ l.bms.max_temp_c < TEMP_CRIT_C
                  THEN hit("BREATHE", 255, 165, 0)
             ELSE [active |-> FALSE, di |-> DesiredIndicator("OFF", 0, 0, 0)]

apply_if_changed_(l, d) ==
    IF d # l.last
    THEN [l EXCEPT !.cmds = apply_pattern(@, LED_BRIGHTNESS, d), !.last = d]
    ELSE l

enqueue_badge_(l, r, g, b) == [l EXCEPT !.pending_badges = Append(@, <<r, g, b>>)]

\* the switch of run_ on the received event; due: 500 ms have passed since
\* the last OTA badge
run_event(l, ev) ==
    CASE ev.kind = "EV_OTA" ->
            LET a == [l EXCEPT !.have_ota = TRUE, !.ota_status = ev.status]
            IN  IF /\ ev.status \in {kOTA_CHECKING, kOTA_DOWNLOADING, kOTA_INSTALLING}
                   /\ ev.due
                THEN enqueue_badge_(a, 128, 0, 128)
                ELSE a
      [] ev.kind = "EV_BMS" ->
            LET a == [l EXCEPT !.have_bms = ev.m.valid, !.bms = ev.m]
                b == IF a.boot_anim_active
                     THEN apply_if_changed_(
                              [a EXCEPT !.cmds = SinglePixel_stop(@),
                                        !.boot_anim_active = FALSE],
                              DesiredIndicator("OFF", 0, 0, 0))
                     ELSE a
            IN  IF b.bms.valid /\ b.bms.comm_ok /\ ~compute_takeover_(b).active
                THEN enqueue_badge_(b, 0, 255, 0)
                ELSE b
      [] ev.kind = "EV_NET_TX" -> enqueue_badge_(l, 0, 0, 255)
      [] ev.kind = "EV_OVERRIDE_SET" -> [l EXCEPT !.override_active = TRUE, !.ov = ev.di]
      [] ev.kind = "EV_OVERRIDE_CLEAR" -> [l EXCEPT !.override_active = FALSE]
      [] OTHER -> l

\* a takeover or override indicator: cancel what the pixel is animating,
\* then apply the indicator if it differs from the last one applied
run_show(l, kind, d) ==
    LET s == IF is_animating(l) THEN [l EXCEPT !.cmds = SinglePixel_stop(@)] ELSE l
    IN  [apply_if_changed_(s, d) EXCEPT !.sel = [kind |-> kind, di |-> d]]

\* the part of an iteration of run_ after the event switch
run_select(l) ==
    LET t == compute_takeover_(l)
        off == DesiredIndicator("OFF", 0, 0, 0)
    IN  IF l.override_active THEN run_show(l, "override", l.ov)
        ELSE IF t.active THEN run_show(l, "takeover", t.di)
        ELSE IF ~is_animating(l)
        THEN IF l.pending_badges # <<>>
             THEN LET b == Head(l.pending_badges)
                  IN  [l EXCEPT !.pending_badges = Tail(@),
                                !.cmds = SinglePixel_blink(
                                    @, make_rgb(b[1], b[2], b[3], LED_BRIGHTNESS), 200, 1),
                                !.sel = [kind |-> "badge", di |-> off]]
             ELSE LET s == IF l.boot_anim_active
                           THEN [l EXCEPT !.cmds = SinglePixel_stop(@),
                                          !.boot_anim_active = FALSE]
                           ELSE l
                  IN  [apply_if_changed_(s, off) EXCEPT !.sel = [kind |-> "idle", di |-> off]]
        ELSE [l EXCEPT !.sel = [kind |-> "busy", di |-> off]]

run_(l, ev) == run_select(run_event(l, ev))

\* packs the main task may report: healthy, each condition of
\* compute_takeover_ alone at its boundary, and pairs of conditions
LedSamples ==
    { LedHealthy,
      [LedHealthy EXCEPT !.valid = FALSE, !.comm_ok = FALSE],
      [LedHealthy EXCEPT !.comm_ok = FALSE, !.ov_critical = TRUE],
      [LedHealthy EXCEPT !.uv_critical = TRUE, !.max_temp_c = 70],
      [LedHealthy EXCEPT !.max_temp_c = 70, !.mosfet_fault = TRUE],
      [LedHealthy EXCEPT !.mosfet_fault = TRUE, !.soc_pct = 19],
      [LedHealthy EXCEPT !.soc_pct = 0, !.cell_delta_v = 21],
      [LedHealthy EXCEPT !.soc_pct = 20, !.cell_delta_v = 21, !.max_temp_c = 55],
      [LedHealthy EXCEPT !.soc_pct = -1, !.cell_delta_v = 20, !.max_temp_c = 69],
      [LedHealthy EXCEPT !.soc_pct = 20, !.cell_delta_v = 20, !.max_temp_c = 54] }

LedEvents ==
    [kind : {"EV_OTA"}, status : {kOTA_IDLE, kOTA_DOWNLOADING, kOTA_FAILED, kOTA_ROLLBACK},
     due : BOOLEAN]
    \cup [kind : {"EV_BMS"}, m : LedSamples]
    \cup [kind : {"EV_NET_TX", "EV_OVERRIDE_CLEAR"}]
    \cup [kind : {"EV_OVERRIDE_SET"},
          di : {DesiredIndicator("FAST_BLINK", 0, 0, 255)}]

otherVarsLed == <<arg, out, app, ota, wifi, sd, mqtt>>

\* one iteration of run_ that received an event
LedRunEvent(ev) ==
    /\ Len(led.pending_badges) < LedMaxBadges
    /\ Len(led.cmds) <= LedMaxQueued
    /\ led' = run_(led, ev)
    /\ UNCHANGED otherVarsLed /\ UNCHANGED bmsVars

\* one iteration of run_ whose xQueueReceive timed out
LedRunTimeout ==
    /\ Len(led.cmds) <= LedMaxQueued
    /\ led' = run_select(led)
    /\ UNCHANGED otherVarsLed /\ UNCHANGED bmsVars

\* worker_task_ takes the next command; an animation command enters its loop
PixelReceive ==
    /\ led.running = "NONE"
    /\ led.cmds # <<>>
    /\ LET c == Head(led.cmds)
       IN  led' = [led EXCEPT
                !.cmds = Tail(@),
                !.running = CASE c.kind = "BLINK" /\ c.period_ms # 0 -> "BLINK"
                              [] c.kind = "BREATHE" -> "BREATHE"
                              [] c.kind = "FADE_SEQ" -> "FADE_SEQUENCE"
                              [] OTHER -> "NONE",
                !.cur = IF c.kind \in {"BLINK", "BREATHE", "FADE_SEQ"} THEN c ELSE @]
    /\ UNCHANGED otherVarsLed /\ UNCHANGED bmsVars

\* the running animation sees a command waiting and returns
PixelInterrupted ==
    /\ led.running # "NONE"
    /\ led.cmds # <<>>
    /\ led' = [led EXCEPT !.running = "NONE"]
    /\ UNCHANGED otherVarsLed /\ UNCHANGED bmsVars

\* a finite animation has played its repeats
PixelAnimationDone ==
    /\ led.running # "NONE"
    /\ led.cur.repeat >= 0
    /\ led' = [led EXCEPT !.running = "NONE"]
    /\ UNCHANGED otherVarsLed /\ UNCHANGED bmsVars

----------------------------------------------------------------------------
(* OTA manager: components/ota_manager/ota_manager.c after                  *)
(* ota_manager_init.  Callers are the tasks that may call                   *)
(* ota_manager_start_update at the same time; a call holds g_ota_mutex      *)
(* from its status test to xTaskCreate, across the version check.  The      *)
(* update tasks are counted by position: created and not yet run,           *)
(* downloading, finished with success and waiting for esp_restart.          *)

OtaCallers == {1, 2}

\* update tasks beyond which xTaskCreate is taken to fail in the model
OtaMaxTasks == 2

OtaInit ==
    [g_ota_status |-> "IDLE",
     mutex |-> 0,                                   \* caller holding g_ota_mutex
     created |-> 0, downloading |-> 0, restarting |-> 0,
     failed |-> FALSE,     \* an update task ended in failure, no API call since
     ret |-> [c \in OtaCallers |-> "none"],         \* what the caller's last call returned
     busy |-> [c \in OtaCallers |-> FALSE],        \* an update task existed at that call's test
     after_failure |-> [c \in OtaCallers |-> FALSE]]   \* 'failed' held at that call

OtaTasks(o) == o.created + o.downloading + o.restarting

\* the end of ota_manager_start_update: xTaskCreate, xSemaphoreGive, return
start_update_create(o, c, pass) ==
    [o EXCEPT !.created = IF pass THEN @ + 1 ELSE @,
              !.mutex = 0,
              !.ret[c] = IF pass THEN "ESP_OK" ELSE "ESP_ERR_NO_MEM"]

\* ota_manager_start_update up to the version check
ota_manager_start_update(c, force_update, pass) ==
    /\ ota.mutex = 0
    /\ pass => OtaTasks(ota) < OtaMaxTasks
    /\ LET o == [ota EXCEPT !.busy[c] = OtaTasks(ota) > 0, !.failed = FALSE,
                            !.after_failure[c] = ota.failed, !.ret[c] = "none"]
       IN  ota' = IF o.g_ota_status # "IDLE"
                  THEN [o EXCEPT !.ret[c] = "ESP_ERR_INVALID_STATE",
                                 !.failed = ota.failed]
                  ELSE IF force_update THEN start_update_create(o, c, pass)
                  ELSE [o EXCEPT !.mutex = c]
    /\ UNCHANGED <<arg, out, app, led, wifi, sd, mqtt>> /\ UNCHANGED bmsVars

\* a call that waited 1000 ms for the mutex held by a version check
OtaMutexTimeout(c) ==
    /\ ota.mutex \notin {0, c}
    /\ ota' = [ota EXCEPT !.ret[c] = "ESP_ERR_TIMEOUT", !.busy[c] = OtaTasks(ota) > 0,
                          !.after_failure[c] = ota.failed]
    /\ UNCHANGED <<arg, out, app, led, wifi, sd, mqtt>> /\ UNCHANGED bmsVars

\* ota_manager_check_update returns inside the call, which goes on
OtaCheckUpdateDone(c, check_ok, pass) ==
    /\ ota.mutex = c
    /\ pass => OtaTasks(ota) < OtaMaxTasks
    /\ ota' = IF check_ok THEN start_update_create(ota, c, pass)
              ELSE [ota EXCEPT !.mutex = 0, !.ret[c] = "ESP_ERR_NOT_FOUND"]
    /\ UNCHANGED <<arg, out, app, led, wifi, sd, mqtt>> /\ UNCHANGED bmsVars

\* ota_task begins to run
ota_task_start ==
    /\ ota.created > 0
    /\ ota' = [ota EXCEPT !.created = @ - 1, !.downloading = @ + 1,
                          !.g_ota_status = "DOWNLOADING"]
    /\ UNCHANGED <<arg, out, app, led, wifi, sd, mqtt>> /\ UNCHANGED bmsVars

\* esp_https_ota returns in ota_task
ota_task_end(ok) ==
    /\ ota.downloading > 0
    /\ ota' = IF ok
              THEN [ota EXCEPT !.downloading = @ - 1, !.restarting = @ + 1,
                               !.g_ota_status = "SUCCESS"]
              ELSE [ota EXCEPT !.downloading = @ - 1, !.g_ota_status = "FAILED",
                               !.failed = TRUE]
    /\ UNCHANGED <<arg, out, app, led, wifi, sd, mqtt>> /\ UNCHANGED bmsVars

\* esp_restart after a successful update, then ota_manager_init again
OtaRestart ==
    /\ ota.restarting > 0
    /\ ota' = OtaInit
    /\ UNCHANGED <<arg, out, app, led, wifi, sd, mqtt>> /\ UNCHANGED bmsVars

\* ok: esp_ota_mark_app_valid_cancel_rollback succeeded
ota_manager_mark_valid(ok) ==
    /\ ota' = [ota EXCEPT !.g_ota_status = IF ok THEN "IDLE" ELSE @, !.failed = FALSE]
    /\ UNCHANGED <<arg, out, app, led, wifi, sd, mqtt>> /\ UNCHANGED bmsVars

\* ota_manager_rollback when esp_ota_mark_app_invalid_rollback_and_reboot
\* returns (no other partition to boot)
ota_manager_rollback ==
    /\ ota' = [ota EXCEPT !.g_ota_status = "ROLLBACK", !.failed = FALSE]
    /\ UNCHANGED <<arg, out, app, led, wifi, sd, mqtt>> /\ UNCHANGED bmsVars

----------------------------------------------------------------------------
(* WiFi manager: components/wifi_manager/wifi_manager.c after               *)
(* wifi_manager_init and a loaded configuration.  drv is the state of the   *)
(* WiFi driver as the manager's calls and the driver's events leave it:     *)
(* "stopped", "starting" (esp_wifi_start called, STA_START not yet          *)
(* handled), "idle" (started, no attempt under way), "connecting",          *)
(* "connected", "stopping" (esp_wifi_stop called while connected, the       *)
(* STA_DISCONNECTED event it posts not yet handled).  The handler is taken  *)
(* to obtain s_wifi_mutex within its 100 ms.                                *)

MAX_RETRY_DELAY_MS == 30000
MIN_RETRY_DELAY_MS == 1000
WIFI_DEFAULT_RETRY_COUNT == 3

\* a second configured retry_count, large enough for the delay to reach its cap
WifiLongRetryCount == 6

\* STA_DISCONNECTED events after which the model stops the link from failing
WifiMaxDisconnects == 8

WifiInit(retry_count) ==
    [state |-> "DISCONNECTED", retry_attempts |-> 0, disconnect_count |-> 0,
     s_retry_delay_ms |-> MIN_RETRY_DELAY_MS,
     retry_count |-> retry_count,             \* s_wifi_config.retry_count
     bits |-> {},                              \* s_wifi_event_group
     drv |-> "stopped",
     waiting |-> FALSE,                        \* wifi_manager_start is in xEventGroupWaitBits
     got_ip |-> FALSE, exhausted |-> FALSE,    \* what happened during the current start call
     ret |-> [code |-> "none", got_ip |-> FALSE, exhausted |-> FALSE,
              state |-> "DISCONNECTED"]]      \* last return of wifi_manager_start

\* esp_wifi_connect: an attempt begins if the driver is started
esp_wifi_connect(w) ==
    [w EXCEPT !.drv = IF @ \in {"stopped", "stopping"} THEN "stopped" ELSE "connecting"]

\* variant of the STA_DISCONNECTED branch that retries while
\* retry_attempts <= retry_count
sta_disconnected_inclusive(w) ==
    LET d == [w EXCEPT !.state = "DISCONNECTED", !.disconnect_count = @ + 1]
    IN  IF d.retry_attempts <= d.retry_count
        THEN esp_wifi_connect(
                 [d EXCEPT !.retry_attempts = @ + 1,
                           !.state = "CONNECTING",
                           !.s_retry_delay_ms = IF @ * 2 > MAX_RETRY_DELAY_MS
                                                THEN MAX_RETRY_DELAY_MS ELSE @ * 2])
        ELSE [d EXCEPT !.state = "FAILED", !.bits = @ \cup {"WIFI_FAIL_BIT"},
                       !.exhausted = TRUE,
                       !.drv = IF @ = "stopping" THEN "stopped" ELSE "idle"]

\* wifi_event_handler, WIFI_EVENT_STA_DISCONNECTED
sta_disconnected(w) ==
    LET d == [w EXCEPT !.state = "DISCONNECTED", !.disconnect_count = @ + 1]
    IN  IF d.retry_attempts < d.retry_count
        THEN esp_wifi_connect(
                 [d EXCEPT !.retry_attempts = @ + 1,
                           !.state = "CONNECTING",
                           !.s_retry_delay_ms = IF @ * 2 > MAX_RETRY_DELAY_MS
                                                THEN MAX_RETRY_DELAY_MS ELSE @ * 2])
        ELSE [d EXCEPT !.state = "FAILED", !.bits = @ \cup {"WIFI_FAIL_BIT"},
                       !.exhausted = TRUE,
                       !.drv = IF @ = "stopping" THEN "stopped" ELSE "idle"]

\* wifi_event_handler, WIFI_EVENT_STA_START
WifiStaStart ==
    /\ wifi.drv = "starting"
    /\ wifi' = [esp_wifi_connect([wifi EXCEPT !.drv = "idle"]) EXCEPT !.state = "CONNECTING"]
    /\ UNCHANGED <<arg, out, app, led, ota, sd, mqtt>> /\ UNCHANGED bmsVars

\* wifi_event_handler, WIFI_EVENT_STA_DISCONNECTED: an attempt failed, the
\* link was lost, or esp_wifi_stop ended the connection
WifiDisconnected ==
    /\ wifi.drv \in {"connecting", "connected", "stopping"}
    /\ wifi.disconnect_count < WifiMaxDisconnects
    /\ wifi' = sta_disconnected(wifi)
    /\ UNCHANGED <<arg, out, app, led, ota, sd, mqtt>> /\ UNCHANGED bmsVars

\* wifi_event_handler, IP_EVENT_STA_GOT_IP
WifiGotIp ==
    /\ wifi.drv = "connecting"
    /\ wifi' = [wifi EXCEPT !.state = "CONNECTED", !.retry_attempts = 0,
                            !.s_retry_delay_ms = MIN_RETRY_DELAY_MS,
                            !.bits = @ \cup {"WIFI_CONNECTED_BIT"},
                            !.got_ip = TRUE, !.drv = "connected"]
    /\ UNCHANGED <<arg, out, app, led, ota, sd, mqtt>> /\ UNCHANGED bmsVars

\* wifi_manager_start up to xEventGroupWaitBits
wifi_manager_start ==
    /\ ~wifi.waiting
    /\ wifi.drv # "stopping"
    /\ wifi' = [wifi EXCEPT !.drv = IF @ = "stopped" THEN "starting" ELSE @,
                            !.waiting = TRUE, !.got_ip = FALSE, !.exhausted = FALSE,
                            !.ret = [code |-> "none", got_ip |-> FALSE, exhausted |-> FALSE,
                                     state |-> "DISCONNECTED"]]
    /\ UNCHANGED <<arg, out, app, led, ota, sd, mqtt>> /\ UNCHANGED bmsVars

\* xEventGroupWaitBits returns in wifi_manager_start: a bit is set, or
\* timeout_ms have passed
WifiStartReturn(timeout) ==
    /\ wifi.waiting
    /\ timeout <=> wifi.bits = {}
    /\ wifi' = [wifi EXCEPT
            !.waiting = FALSE,
            !.ret = [code |-> IF "WIFI_CONNECTED_BIT" \in wifi.bits THEN "ESP_OK"
                              ELSE IF "WIFI_FAIL_BIT" \in wifi.bits THEN "ESP_ERR_WIFI_CONN"
                              ELSE "ESP_ERR_TIMEOUT",
                     got_ip |-> wifi.got_ip, exhausted |-> wifi.exhausted,
                     state |-> wifi.state]]
    /\ UNCHANGED <<arg, out, app, led, ota, sd, mqtt>> /\ UNCHANGED bmsVars

wifi_manager_stop ==
    /\ ~wifi.waiting
    /\ wifi.drv # "stopping"
    /\ wifi' = [wifi EXCEPT !.state = "DISCONNECTED",
                            !.drv = IF @ = "connected" THEN "stopping" ELSE "stopped"]
    /\ UNCHANGED <<arg, out, app, led, ota, sd, mqtt>> /\ UNCHANGED bmsVars

----------------------------------------------------------------------------
(* SD-card log sink: components/logging/sd_card_log_sink.cpp after init,    *)
(* with count_lines_on_open off.  A file is named by the day of its name    *)
(* and its sequence number (0: the daily base file); files gives the data   *)
(* lines each file holds on the card, -1 for a file that does not exist.    *)
(* Writes to the card are taken to succeed.                                 *)

\* config_.max_lines_per_file in the model
SdMaxLines == 2

\* the days the clock passes through are 0 .. SdMaxDays
SdMaxDays == 1

\* the highest sequence number the model lets a day reach
SdMaxSeq == 1

\* calls of init after a shutdown
SdMaxInits == 1

SdNames == (0..SdMaxDays) \X (0..SdMaxSeq)

NoFile == <<-1, -1>>

SdInit ==
    [state |-> "READY", current_file |-> NoFile, current_file_lines |-> 0,
     write_buffer |-> 0,                       \* lines in write_buffer_
     current_date_string |-> -1, day |-> 0,
     files |-> [n \in SdNames |-> -1],
     inits |-> 0]

writeBufferToFile(s) ==
    IF s.write_buffer = 0 \/ s.current_file = NoFile THEN s
    ELSE [s EXCEPT !.files[s.current_file] = @ + s.write_buffer, !.write_buffer = 0]

\* generateUniqueFilenameForToday: the base name, else the first free number
generateUniqueFilenameForToday(s) ==
    LET free == {q \in 0..SdMaxSeq : s.files[<<s.day, q>>] = -1}
    IN  <<s.day, CHOOSE q \in free : \A r \in free : q <= r>>

createNewFile(s, mode) ==
    LET name == IF mode = "AppendIfExists" THEN <<s.day, 0>>
                ELSE generateUniqueFilenameForToday(s)
    IN  [s EXCEPT !.current_date_string = s.day,
                  !.current_file = name,
                  !.files[name] = IF mode = "AppendIfExists" /\ @ # -1 THEN @ ELSE 0,
                  !.current_file_lines = 0]

rotateFileIfNeeded(s) ==
    IF s.current_file = NoFile THEN createNewFile(s, "AppendIfExists")
    ELSE IF s.day # s.current_date_string
         THEN createNewFile([writeBufferToFile(s) EXCEPT !.current_file = NoFile],
                            "AppendIfExists")
    ELSE IF s.current_file_lines >= SdMaxLines
         THEN createNewFile([writeBufferToFile(s) EXCEPT !.current_file = NoFile],
                            "AlwaysNewUnique")
    ELSE s

\* SDCardLogSink::send; flush: the flush interval has passed or the buffer is full
SdSend(flush) ==
    /\ sd.state = "READY"
    /\ (sd.current_file # NoFile /\ sd.day = sd.current_date_string
            /\ sd.current_file_lines >= SdMaxLines)
        => \E q \in 0..SdMaxSeq : sd.files[<<sd.day, q>>] = -1
    /\ LET r == rotateFileIfNeeded(sd)
           a == [r EXCEPT !.write_buffer = @ + 1, !.current_file_lines = @ + 1]
       IN  sd' = IF flush THEN writeBufferToFile(a) ELSE a
    /\ UNCHANGED <<arg, out, app, led, ota, wifi, mqtt>> /\ UNCHANGED bmsVars

\* SDCardLogSink::shutdown
SdShutdown ==
    /\ sd.state = "READY"
    /\ sd' = [writeBufferToFile(sd) EXCEPT !.current_file = NoFile,
                                           !.state = "UNINITIALIZED"]
    /\ UNCHANGED <<arg, out, app, led, ota, wifi, mqtt>> /\ UNCHANGED bmsVars

\* SDCardLogSink::init after a shutdown
SdReinit ==
    /\ sd.state = "UNINITIALIZED"
    /\ sd.inits < SdMaxInits
    /\ sd' = [sd EXCEPT !.state = "READY", !.inits = @ + 1]
    /\ UNCHANGED <<arg, out, app, led, ota, wifi, mqtt>> /\ UNCHANGED bmsVars

\* midnight passes
SdNextDay ==
    /\ sd.day < SdMaxDays
    /\ sd' = [sd EXCEPT !.day = @ + 1]
    /\ UNCHANGED <<arg, out, app, led, ota, wifi, mqtt>> /\ UNCHANGED bmsVars

----------------------------------------------------------------------------
(* MQTT log sink: src/mqtt_log_sink.cpp.  A message is the number of the    *)
(* write call that passed it (1, 2, ...); "" is 0.  connected is what       *)
(* g_mqtt.connected() returns.  The diagnostic counters publish_ok_,        *)
(* publish_fail_ and reconnect_attempts_ are left out.                      *)

BUFFER_SIZE == 10

\* write calls the model makes
MqttMaxWrites == 11

\* times the model loses the connection
MqttMaxDisconnects == 1

MqttInit ==
    [connected |-> FALSE,
     message_buffer |-> [i \in 0..(BUFFER_SIZE - 1) |-> 0],
     buffer_head |-> 0, buffer_tail |-> 0, buffer_count |-> 0, dropped |-> 0,
     written |-> 0,                    \* write calls made
     disconnects |-> 0,                \* times the connection was lost
     direct |-> FALSE,                 \* the last call was a write that published its line
     k |-> 0, c0 |-> 0, d0 |-> 0]      \* writes since the connection was lost;
                                       \* buffer_count_ and dropped_ at that moment

\* the messages in the ring buffer, oldest first
MqttBuffered(m) ==
    [i \in 1..m.buffer_count |-> m.message_buffer[(m.buffer_tail + i - 1) % BUFFER_SIZE]]

\* variant of the buffering branch of write that, when the buffer is full,
\* overwrites the slot at the head without moving the tail
write_buffered_keep_tail(m, line) ==
    IF m.buffer_count < BUFFER_SIZE
    THEN [m EXCEPT !.message_buffer[m.buffer_head] = line,
                   !.buffer_head = (@ + 1) % BUFFER_SIZE,
                   !.buffer_count = @ + 1]
    ELSE [m EXCEPT !.message_buffer[m.buffer_head] = line,
                   !.buffer_head = (@ + 1) % BUFFER_SIZE,
                   !.dropped = @ + 1]

\* write while g_mqtt.connected() is false
write_buffered(m, line) ==
    IF m.buffer_count < BUFFER_SIZE
    THEN [m EXCEPT !.message_buffer[m.buffer_head] = line,
                   !.buffer_head = (@ + 1) % BUFFER_SIZE,
                   !.buffer_count = @ + 1]
    ELSE [m EXCEPT !.buffer_tail = (@ + 1) % BUFFER_SIZE,
                   !.message_buffer[m.buffer_head] = line,
                   !.buffer_head = (@ + 1) % BUFFER_SIZE,
                   !.dropped = @ + 1]

\* flush_buffer when the first n publishes succeed and the next one, if any, fails
flush_buffer(m, n) ==
    [m EXCEPT !.buffer_tail = (@ + n) % BUFFER_SIZE,
              !.buffer_count = @ - n]

\* MqttLogSink::write; publish_ok: what g_mqtt.publish returns
MqttWrite(publish_ok) ==
    /\ mqtt.written < MqttMaxWrites
    /\ LET line == mqtt.written + 1
           m == [mqtt EXCEPT !.written = line, !.direct = FALSE]
       IN  mqtt' = IF ~m.connected
                   THEN [write_buffered(m, line) EXCEPT !.k = @ + 1]
                   ELSE IF publish_ok THEN [m EXCEPT !.direct = TRUE]
                   ELSE m
    /\ UNCHANGED <<arg, out, app, led, ota, wifi, sd>> /\ UNCHANGED bmsVars

\* MqttLogSink::tick; connect_ok: the backoff allows an attempt and
\* g_mqtt.connect succeeds; n: publishes of flush_buffer that succeed
MqttTick(connect_ok, n) ==
    /\ n <= mqtt.buffer_count
    /\ (mqtt.connected \/ connect_ok) \/ n = 0
    /\ mqtt' = IF mqtt.connected \/ connect_ok
               THEN flush_buffer([mqtt EXCEPT !.connected = TRUE, !.direct = FALSE], n)
               ELSE [mqtt EXCEPT !.direct = FALSE]
    /\ UNCHANGED <<arg, out, app, led, ota, wifi, sd>> /\ UNCHANGED bmsVars

\* the connection to the broker is lost
MqttDisconnect ==
    /\ mqtt.connected
    /\ mqtt.disconnects < MqttMaxDisconnects
    /\ mqtt' = [mqtt EXCEPT !.connected = FALSE, !.direct = FALSE,
                            !.k = 0, !.disconnects = @ + 1,
                            !.c0 = mqtt.buffer_count, !.d0 = mqtt.dropped]
    /\ UNCHANGED <<arg, out, app, led, ota, wifi, sd>> /\ UNCHANGED bmsVars


----------------------------------------------------------------------------

\* the drivers after creation
InitBms ==
    /\ vendor \in {"JBD", "DALY"}
    /\ pc = "idle"
    /\ jbd = jbd_bms_init(JbdDataInit)
    /\ daly = daly_bms_init(DalyDataInit)
    /\ tx_buffer = daly_bms_init_tx(Rep(13, 0))
    /\ retries = 0
    /\ sent = <<>>
    /\ reads = [hw |-> 0, cell |-> 0]
    /\ valid = {} /\ decoded = {}
    /\ result = "none"
    /\ prevPeak = [current |-> 0, power |-> 0]
    /\ acc = NoAcc
    /\ ret = 0
    /\ op = "none"
    /\ used = NoUsed
    /\ dirty = FALSE

InitSys ==
    /\ led = LedInit
    /\ ota = OtaInit
    /\ wifi = WifiInit(WIFI_DEFAULT_RETRY_COUNT)
    /\ sd = SdInit
    /\ mqtt = MqttInit

Init ==
    /\ InitBms /\ arg = Arg("none", <<>>, <<>>, 0, 0, 0) /\ out = NoOut /\ app = AppInit
    /\ InitSys

\* the polling task
NextPoll ==
    \/ JbdPollStart
    \/ \E f \in JbdHwFrames : JbdReadHwinfo(f)
    \/ \E f \in JbdCellFrames : JbdReadCellinfo(f)
    \/ DalyPollStart
    \/ \E f \in DalyFramesAt(pc), u \in UndefBytes : DalyRead(f, u)

\* polls and write commands
Next ==
    \/ NextPoll
    \/ \E sw \in BOOLEAN : daly_bms_set_discharge_mos(sw)
    \/ \E sw \in BOOLEAN : daly_bms_set_charge_mos(sw)
    \/ daly_bms_reset

Spec == Init /\ [][Next]_vars

\* polls and the indexed getters of the interface
NextGet ==
    \/ NextPoll
    \/ \E i \in JbdGetterArgs : JbdGetCellVoltage(i)
    \/ \E i \in JbdGetterArgs : JbdGetTemperature(i)
    \/ \E i \in DalyGetterArgs : DalyGetCellVoltage(i)
    \/ \E i \in DalyGetterArgs : DalyGetTemperature(i)

SpecGet == Init /\ [][NextGet]_vars

\* one call of a codec function on drawn arguments
InitCodec ==
    /\ InitBms /\ vendor = "JBD" /\ arg \in CodecArgs /\ out = NoOut /\ app = AppInit
    /\ InitSys

NextCodec ==
    \/ CallDalyReceiveBytes
    \/ CallJbdVerify
    \/ CallJbdCmd
    \/ CallJbdParseCellinfo
    \/ \E u \in UndefBytes : CallDalyStep(u)

SpecCodec == InitCodec /\ [][NextCodec]_vars

\* the main task and the timer; the driver is the JBD one (auto_detect_bms_type
\* returns false), its polls reduced to their outcome
InitApp == Init /\ vendor = "JBD"

NextApp ==
    \/ periodic_timer_callback
    \/ AppWake
    \/ \E ok \in BOOLEAN, s \in AppSamples : AppPollEnd(ok, s[1], s[2])

SpecApp == InitApp /\ [][NextApp]_vars

\* the timer keeps firing, the task runs when it can, readMeasurements returns
SpecAppLive ==
    /\ SpecApp
    /\ WF_vars(periodic_timer_callback)
    /\ WF_vars(AppWake)
    /\ WF_vars(\E ok \in BOOLEAN, s \in AppSamples : AppPollEnd(ok, s[1], s[2]))

\* the status LED task and the pixel's worker task
NextLed ==
    \/ \E ev \in LedEvents : LedRunEvent(ev)
    \/ LedRunTimeout
    \/ PixelReceive
    \/ PixelInterrupted
    \/ PixelAnimationDone

SpecLed == InitApp /\ [][NextLed]_vars

\* the callers of the OTA manager and its update tasks
NextOta ==
    \/ \E c \in OtaCallers, force_update, pass \in BOOLEAN :
            ota_manager_start_update(c, force_update, pass)
    \/ \E c \in OtaCallers : OtaMutexTimeout(c)
    \/ \E c \in OtaCallers, check_ok, pass \in BOOLEAN : OtaCheckUpdateDone(c, check_ok, pass)
    \/ ota_task_start
    \/ \E ok \in BOOLEAN : ota_task_end(ok)
    \/ OtaRestart
    \/ \E ok \in BOOLEAN : ota_manager_mark_valid(ok)
    \/ ota_manager_rollback

SpecOta == InitApp /\ [][NextOta]_vars

\* the WiFi manager with the default and with a long retry_count
InitWifi ==
    /\ InitBms /\ vendor = "JBD" /\ arg = Arg("none", <<>>, <<>>, 0, 0, 0)
    /\ out = NoOut /\ app = AppInit
    /\ led = LedInit /\ ota = OtaInit /\ sd = SdInit /\ mqtt = MqttInit
    /\ wifi \in {WifiInit(WIFI_DEFAULT_RETRY_COUNT), WifiInit(WifiLongRetryCount)}

NextWifi ==
    \/ WifiStaStart
    \/ WifiDisconnected
    \/ WifiGotIp
    \/ wifi_manager_start
    \/ \E timeout \in BOOLEAN : WifiStartReturn(timeout)
    \/ wifi_manager_stop

SpecWifi == InitWifi /\ [][NextWifi]_vars

\* the SD-card log sink
NextSd ==
    \/ \E flush \in BOOLEAN : SdSend(flush)
    \/ SdShutdown
    \/ SdReinit
    \/ SdNextDay

SpecSd == InitApp /\ [][NextSd]_vars

\* the MQTT log sink and its broker connection
NextMqtt ==
    \/ \E publish_ok \in BOOLEAN : MqttWrite(publish_ok)
    \/ \E connect_ok \in BOOLEAN, n \in 0..BUFFER_SIZE : MqttTick(connect_ok, n)
    \/ MqttDisconnect

SpecMqtt == InitApp /\ [][NextMqtt]_vars

----------------------------------------------------------------------------
(* Properties *)

\* the data of the driver the session uses, under vendor-independent names
Peak ==
    IF vendor = "JBD" THEN [current |-> jbd.peakCurrent, power |-> jbd.peakPower]
    ELSE [current |-> daly.peakCurrent, power |-> daly.peakPower]

Sample ==
    IF vendor = "JBD" THEN [current |-> jbd.packCurrent, power |-> jbd.power]
    ELSE [current |-> daly.packCurrent, power |-> daly.power]

CellCount == IF vendor = "JBD" THEN jbd.cellCount ELSE daly.numberOfCells

TemperatureCount == IF vendor = "JBD" THEN jbd.temperatureCount ELSE daly.numOfTempSensors

PollSteps == IF vendor = "JBD" THEN {"HWINFO", "CELLINFO"} ELSE DalyStepSet

PollReturned == pc = "idle" /\ result # "none"

\* C1: a poll that returns success has, for every command step, received a
\* response that passed frame validation and was decoded during that poll.
C1_SuccessMeansEveryStepDecoded ==
    (PollReturned /\ result = "ok") => (valid = PollSteps /\ decoded = PollSteps)

\* C2: (JBD) when each of HWINFO and CELLINFO got a valid frame on one of its
\* at most three read attempts, the poll returns success.
C2_ValidFrameWithinThreeAttemptsSucceeds ==
    (vendor = "JBD" /\ PollReturned /\ valid = {"HWINFO", "CELLINFO"}
       /\ reads.hw <= 3 /\ reads.cell <= 3)
    => result = "ok"

\* C3: (JBD) a step is never read more than three times, and a poll whose three
\* HWINFO reads all failed validation returns failure after exactly three HWINFO
\* reads, without sending the CELLINFO request or reading its response.
C3_ThreeBadHwinfoFailWithoutCellinfo ==
    vendor = "JBD" =>
      /\ reads.hw <= 3
      /\ (PollReturned /\ "HWINFO" \notin valid) =>
           /\ result = "fail"
           /\ reads.hw = 3
           /\ reads.cell = 0
           /\ \A i \in 1..Len(sent) : At(sent[i], 2) # JBD_CMD_CELLINFO

C3_Witness ==
    /\ vendor = "JBD" /\ PollReturned /\ "HWINFO" \notin valid
    /\ reads.hw = 3 /\ result = "fail"

\* C4: after a successful poll each peak is the maximum of its value before the
\* poll and the absolute value of this poll's sample, so it is at least that
\* absolute value.
C4_PeakIsMaxOfPreviousAndSample ==
    (PollReturned /\ result = "ok") =>
      /\ Peak.current = Max(prevPeak.current, Abs(Sample.current))
      /\ Peak.power = Max(prevPeak.power, Abs(Sample.power))
      /\ Peak.current >= Abs(Sample.current)
      /\ Peak.power >= Abs(Sample.power)

\* a successful poll whose negative current raised the peak
C4_Witness ==
    /\ PollReturned /\ result = "ok"
    /\ Sample.current < 0
    /\ Peak.current = -Sample.current
    /\ prevPeak.current < Peak.current
    /\ prevPeak.current > 0

\* C5: both peaks are 0 after driver creation, and no step of a successful poll,
\* a failed poll or a write command ever decreases either of them.
C5_PeaksStartAtZeroAndNeverDecrease ==
    /\ Peak.current = 0 /\ Peak.power = 0
    /\ [][Peak.current' >= Peak.current /\ Peak.power' >= Peak.power]_vars

\* a lower sample was polled after the peak was set, a later poll failed and a
\* write command followed; the peak is still above the sample
C5_Witness ==
    /\ vendor = "DALY" /\ op = "reset"
    /\ PollReturned /\ result = "fail"
    /\ Abs(Sample.current) < Peak.current
    /\ Abs(Sample.power) < Peak.power

\* C6: a poll that returns failure leaves both peaks as they were when it began.
C6_FailedPollKeepsPeaks ==
    (PollReturned /\ result = "fail") => Peak = prevPeak

\* a failed poll whose first step succeeded and decoded a sample above the peak
C6_Witness ==
    /\ PollReturned /\ result = "fail"
    /\ "HWINFO" \in decoded
    /\ Abs(Sample.current) > Peak.current

\* C7: the reported cell count is at most 48 and the reported sensor count at most 16.
C7_CountsWithinCapacity ==
    CellCount <= 48 /\ TemperatureCount <= 16

\* C8: no decoder or getter indexes the cell-voltage array at 48 or above, or the
\* temperature array at 16 or above.
C8_NoIndexOutsideArrays ==
    acc.cell < 48 /\ acc.temp < 16

\* C9: no decoder reads the received frame at an offset outside what it holds
\* (13 bytes for Daly, the declared payload length for JBD).
C9_NoReadPastFrame ==
    acc.rx >= 0 => acc.rx < acc.rxlim

\* C10: (JBD) a poll in which a validly framed response was too short for its
\* decoder does not return success.
C10_TruncatedPayloadFailsPoll ==
    (vendor = "JBD" /\ PollReturned /\ valid \ decoded # {}) => result = "fail"

\* C11: within one Daly poll the commands are transmitted in the order
\* VOUT_IOUT_SOC, MIN_MAX_CELL_VOLTAGE, MIN_MAX_TEMPERATURE, STATUS_INFO,
\* CELL_VOLTAGES, CELL_TEMPERATURE, CELL_BALANCE_STATE, FAILURE_CODES,
\* DISCHARGE_CHARGE_MOS_STATUS: the i-th frame sent carries the i-th of them.
C11_CommandsInDocumentedOrder ==
    LET order == << DALY_CMD_VOUT_IOUT_SOC, DALY_CMD_MIN_MAX_CELL_VOLTAGE,
                    DALY_CMD_MIN_MAX_TEMPERATURE, DALY_CMD_STATUS_INFO,
                    DALY_CMD_CELL_VOLTAGES, DALY_CMD_CELL_TEMPERATURE,
                    DALY_CMD_CELL_BALANCE_STATE, DALY_CMD_FAILURE_CODES,
                    DALY_CMD_DISCHARGE_CHARGE_MOS_STATUS >>
    IN  (vendor = "DALY" /\ op = "poll") =>
          \A i \in 1..Len(sent) : At(sent[i], 2) = order[i]

\* C12: (Daly) in a successful poll whose STATUS_INFO response was valid, the cell
\* count that bounded the CELL_VOLTAGES decoding and the sensor count that bounded
\* the CELL_TEMPERATURE decoding are the counts that STATUS_INFO response reported.
C12_CountsFromSamePollStatusInfo ==
    (vendor = "DALY" /\ PollReturned /\ result = "ok" /\ "STATUS_INFO" \in valid) =>
      /\ "CELL_VOLTAGES" \in valid => used.cells = daly.numberOfCells
      /\ "CELL_TEMPERATURE" \in valid => used.temps = daly.numOfTempSensors

\* the Daly data without the peaks, which no step function writes
DalyStepFields(d) == [d EXCEPT !.peakCurrent = 0, !.peakPower = 0]

C14_DalyAcceptsIffThirteenBytesAndChecksum ==
    out.fn = "daly_bms_receive_bytes" =>
      LET rx == arg.buf
          SumOk(f) == Len(f) = 13 /\ f[13] = SumBytes(f, 0, 12) % 256
      IN  /\ out.ok <=> SumOk(rx)
          /\ Len(rx) < 13 => ~out.ok
          /\ (SumOk(arg.base) /\ Len(rx) = 13
                /\ Cardinality({i \in 1..13 : rx[i] # arg.base[i]}) = 1) => ~out.ok

\* a valid frame whose last data byte alone was changed, rejected
C14_Witness ==
    /\ out.fn = "daly_bms_receive_bytes" /\ ~out.ok
    /\ Len(arg.buf) = 13
    /\ {i \in 1..13 : arg.buf[i] # arg.base[i]} = {12}

\* C15: every frame the Daly driver writes to the transport is 13 bytes long, has
\* the command id of the call at byte 2 and the sum of bytes 0..11 modulo 256 at
\* byte 12, and passes the driver's own validation, whatever was sent before.
C15_SentFramesWellFormed ==
    vendor = "DALY" =>
      \A i \in 1..Len(sent) :
        LET f == sent[i]
            cmd == CASE op = "poll" -> DalyCmdId(DalySteps[i])
                     [] op = "set_discharge_mos" -> DALY_CMD_DISCHRG_FET
                     [] op = "set_charge_mos" -> DALY_CMD_CHRG_FET
                     [] op = "reset" -> DALY_CMD_BMS_RESET
        IN  /\ Len(f) = 13
            /\ At(f, 2) = cmd
            /\ At(f, 12) = SumBytes(f, 0, 12) % 256
            /\ daly_bms_receive_bytes(f)

\* a poll's last command, sent after earlier polls and write commands
C15_Witness ==
    /\ vendor = "DALY" /\ op = "poll" /\ Len(sent) = Len(DalySteps)
    /\ daly.peakCurrent > Abs(daly.packCurrent)

\* C16 as stated: a JBD response of n bytes is accepted if and only if n >= 7,
\* the first byte is 0xDD, the last byte is 0x77, the length field is n - 7 and
\* the two CRC bytes are the 16-bit negated sum of the bytes from offset 2 (named
\* register in the frame layout) through the length field and the data.
C16_JbdAcceptsIffFramed ==
    out.fn = "jbd_verify" =>
      LET buf == arg.buf
          n == Len(buf)
      IN  out.ok <=>
            /\ n >= 7
            /\ buf[1] = JBD_PKT_START
            /\ buf[n] = JBD_PKT_END
            /\ At(buf, 3) = n - 7
            /\ At(buf, n - 3) * 256 + At(buf, n - 2)
                 = (65536 - (SumBytes(buf, 2, n - 5) % 65536)) % 65536

\* C16 amended: a JBD response of n bytes is accepted for a requested register
\* if and only if, besides the conditions above, byte 1 equals that register.
C16_JbdAcceptsIffFramedForRegister ==
    out.fn = "jbd_verify" =>
      LET buf == arg.buf
          n == Len(buf)
      IN  out.ok <=>
            /\ n >= 7
            /\ buf[1] = JBD_PKT_START
            /\ At(buf, 1) = arg.reg
            /\ buf[n] = JBD_PKT_END
            /\ At(buf, 3) = n - 7
            /\ At(buf, n - 3) * 256 + At(buf, n - 2)
                 = (65536 - (SumBytes(buf, 2, n - 5) % 65536)) % 65536

\* an intact CELLINFO response rejected when HWINFO was requested
C16_Witness ==
    /\ out.fn = "jbd_verify" /\ ~out.ok
    /\ arg.buf = arg.base /\ Len(arg.buf) > 7
    /\ At(arg.buf, 1) = JBD_CMD_CELLINFO /\ arg.reg = JBD_CMD_HWINFO

\* C17: for data of at most 250 bytes the frame built by jbd_cmd lies inside the
\* 256-byte tx_buffer, is accepted by jbd_verify for the same register, holds the
\* register and the data where the reader of a verified frame takes them, and is
\* rejected once any one bit of its two CRC bytes is flipped.
C17_EncodedFrameFitsAndVerifies ==
    (out.fn = "jbd_cmd" /\ Len(arg.buf) <= 250) =>
      LET f == out.buf
          n == Len(f)
          FlipBit(b, k) == IF Bit(b, k) THEN b - Pow2(k) ELSE b + Pow2(k)
      IN  /\ n >= 7 /\ n <= JBD_XFER_BUFFER_LENGTH
          /\ out.ok
          /\ At(f, 1) = arg.reg
          /\ SubSeq(f, 5, n - 3) = arg.buf
          /\ \A p \in {n - 3, n - 2}, k \in 0..7 :
               ~jbd_verify(SetByte(f, p, FlipBit(At(f, p), k)), n, arg.reg)

\* C18: the frame sent by set_charge_mos(sw) or set_discharge_mos(sw) has the
\* requested state at the first payload byte (offset 3), 0x01 for true and 0x00
\* for false, and its checksum covers that byte.
C18_MosFrameCarriesRequestedState ==
    [][ \A sw \in BOOLEAN :
          (daly_bms_set_charge_mos(sw) \/ daly_bms_set_discharge_mos(sw)) =>
            /\ At(sent'[1], 3) = (IF sw THEN 1 ELSE 0)
            /\ At(sent'[1], 12) = SumBytes(sent'[1], 0, 12) % 256 ]_vars

\* C19: after jbd_parse_cellinfo decoded a payload of n >= 1 cells, the minimum and
\* maximum cell voltage are the minimum and maximum of the n values, and the
\* minimum and maximum cell numbers are 1-based positions holding those values.
C19_CellStatsAreMinMaxOfArray ==
    (out.fn = "jbd_parse_cellinfo" /\ arg.n >= 1) =>
      LET v == [i \in 1..arg.n |-> _getushort(arg.buf, 2 * (i - 1))]
          d == out.d
      IN  /\ d.minCellVoltage = SetMin({v[i] : i \in 1..arg.n})
          /\ d.maxCellVoltage = SetMax({v[i] : i \in 1..arg.n})
          /\ d.minCellNumber \in 1..arg.n
          /\ v[d.minCellNumber] = d.minCellVoltage
          /\ d.maxCellNumber \in 1..arg.n
          /\ v[d.maxCellNumber] = d.maxCellVoltage

\* min, max and delta of the cell voltages as the interface getters return them (mV)
CellStats ==
    IF vendor = "JBD"
    THEN [min |-> jbd.minCellVoltage, max |-> jbd.maxCellVoltage,
          delta |-> jbd.maxCellVoltage - jbd.minCellVoltage]
    ELSE [min |-> daly.minCellmV, max |-> daly.maxCellmV, delta |-> daly.cellDiff]

\* C20: after every successful poll the minimum cell voltage is at most the
\* maximum and the cell voltage delta is the maximum minus the minimum.
C20_MinAtMostMaxAndDeltaExact ==
    (PollReturned /\ result = "ok") =>
      /\ CellStats.min <= CellStats.max
      /\ CellStats.delta = CellStats.max - CellStats.min

\* the response A5 90 00 00 01 F4 00 00 00 32 01 F4 with its checksum was decoded
NominalReadDecoded ==
    /\ out.fn = "VOUT_IOUT_SOC" /\ out.ok
    /\ SubSeq(arg.buf, 1, 12) = <<165, 144, 0, 0, 1, 244, 0, 0, 0, 50, 1, 244>>

\* C21: the response A5 90 00 00 01 F4 00 00 00 32 01 F4 with a correct checksum
\* decodes to voltage 50.0 V, current 0.0 A and SOC 50.0 %.
C21_NominalReadIsFiftyVoltsZeroAmpsFiftyPercent ==
    NominalReadDecoded =>
        /\ out.d.packVoltage = 500
        /\ out.d.packCurrent = 0
        /\ out.d.packSOC = 5000

\* C21 as the decoder has it: the same response decodes to voltage 50.0 V, current
\* 5.0 A (0x0032 / 10) and SOC 5.0 % (0x01F4 / 100).
C21_NominalReadIsFiftyVoltsFiveAmpsFivePercent ==
    NominalReadDecoded =>
        /\ out.d.packVoltage = 500
        /\ out.d.packCurrent = 50
        /\ out.d.packSOC = 500

C21_Witness ==
    NominalReadDecoded /\ out.d.packVoltage = 500 /\ out.d.power = 500 * 50

DalyAlarmNames ==
    << << "levelOneCellVoltageTooHigh", "levelTwoCellVoltageTooHigh",
          "levelOneCellVoltageTooLow", "levelTwoCellVoltageTooLow",
          "levelOnePackVoltageTooHigh", "levelTwoPackVoltageTooHigh",
          "levelOnePackVoltageTooLow", "levelTwoPackVoltageTooLow" >>,
       << "levelOneChargeTempTooHigh", "levelTwoChargeTempTooHigh",
          "levelOneChargeTempTooLow", "levelTwoChargeTempTooLow",
          "levelOneDischargeTempTooHigh", "levelTwoDischargeTempTooHigh",
          "levelOneDischargeTempTooLow", "levelTwoDischargeTempTooLow" >>,
       << "levelOneChargeCurrentTooHigh", "levelTwoChargeCurrentTooHigh",
          "levelOneDischargeCurrentTooHigh", "levelTwoDischargeCurrentTooHigh",
          "levelOneStateOfChargeTooHigh", "levelTwoStateOfChargeTooHigh",
          "levelOneStateOfChargeTooLow", "levelTwoStateOfChargeTooLow" >>,
       << "levelOneCellVoltageDifferenceTooHigh", "levelTwoCellVoltageDifferenceTooHigh",
          "levelOneTempSensorDifferenceTooHigh", "levelTwoTempSensorDifferenceTooHigh" >>,
       << "chargeFETTemperatureTooHigh", "dischargeFETTemperatureTooHigh",
          "failureOfChargeFETTemperatureSensor", "failureOfDischargeFETTemperatureSensor",
          "failureOfChargeFETAdhesion", "failureOfDischargeFETAdhesion",
          "failureOfChargeFETTBreaker", "failureOfDischargeFETBreaker" >>,
       << "failureOfAFEAcquisitionModule", "failureOfVoltageSensorModule",
          "failureOfTemperatureSensorModule", "failureOfEEPROMStorageModule",
          "failureOfRealtimeClockModule", "failureOfPrechargeModule",
          "failureOfVehicleCommunicationModule", "failureOfIntranetCommunicationModule" >>,
       << "failureOfCurrentSensorModule", "failureOfMainVoltageSensorModule",
          "failureOfShortCircuitProtection", "failureOfLowVoltageNoCharging" >> >>

\* C23: after a successful FAILURE_CODES step every named alarm flag equals the
\* corresponding bit of the 7 alarm bytes of that response: set when the bit is
\* set, cleared when it is cleared.
C23_EveryAlarmFlagMirrorsItsBit ==
    (out.fn = "FAILURE_CODES" /\ out.ok) =>
        \A k \in 1..7 : \A b \in 1..Len(DalyAlarmNames[k]) :
            out.d.alarm[DalyAlarmNames[k][b]] = Bit(At(arg.buf, 3 + k), b - 1)

\* C24: with N cells and M sensors reported, exactly the first min(N, 9) cell
\* voltages and the first min(M, 7) temperatures are decoded from the response (the
\* handle starts zeroed and every response byte is nonzero, so a decoded entry is a
\* nonzero one), the cell voltages are 16-bit values of byte pairs that do not
\* overlap, and nothing past index 8 (cells) or 6 (sensors) is written.
C24_FirstCellsAndSensorsDecoded ==
    /\ (out.fn = "CELL_VOLTAGES" /\ out.ok) =>
           LET n == Min(arg.n, 9)
               pairs(s) == { At(arg.buf, s + 2 * j) * 256 + At(arg.buf, s + 2 * j + 1) :
                             j \in 0..3 }
           IN  /\ \A i \in 0..(DALY_MAX_NUMBER_CELLS - 1) :
                     (out.d.cellVmV[i] # 0) <=> (i < n)
               /\ \E s \in {4, 5} : \A i \in 0..(Min(n, 3) - 1) :
                     out.d.cellVmV[i] \in pairs(s)
    /\ (out.fn = "CELL_TEMPERATURE" /\ out.ok) =>
           \A i \in 0..(DALY_MAX_NUMBER_TEMP_SENSORS - 1) :
               out.d.cellTemperature[i] =
                   IF i < Min(arg.n, 7) THEN ToInt8(At(arg.buf, 4 + i)) ELSE 0

\* C25: at most one poll is in flight at any time; the timer callback only posts the
\* notification and touches neither the transport nor the driver; and however many
\* callbacks run during a poll, at most one poll begins after the last of them
\* until the timer fires again.
C25_AtMostOnePollInFlight ==
    /\ [](app.inflight <= 1 /\ app.sinceTick <= 1)
    /\ [][periodic_timer_callback =>
             /\ UNCHANGED bmsVars
             /\ app'.value = NOTIFY_READ_BMS
             /\ app'.pc = app.pc /\ app'.inflight = app.inflight
             /\ app'.timer = app.timer /\ app'.interval = app.interval
             /\ app'.led = app.led /\ app'.logged = app.logged]_vars
    /\ [][(app.pc = "poll" /\ app'.pc = "poll") => app'.inflight = app.inflight]_vars

\* several callbacks have run during one poll and a single notification is pending
C25_Witness ==
    /\ app.pc = "poll" /\ app.inflight = 1
    /\ app.ticks >= 2
    /\ app.value = NOTIFY_READ_BMS
    /\ app.wifi_check_counter >= 1

\* readMeasurements has just returned failure and the loop body has run
AppPollFailed == app.pc = "poll" /\ app'.pc = "wait" /\ app'.last.result = "fail"

\* C26: after every failed poll the status indicator is told comm_ok = false, no
\* snapshot goes to the log sinks in that cycle, and the task polls again once
\* notified; consecutive failed polls, however many, do not stop the loop.
C26_FailedPollReportedAndLoopGoesOn ==
    /\ [][AppPollFailed =>
             /\ app'.led = [valid |-> TRUE, comm_ok |-> FALSE]
             /\ app'.logged = 0]_vars
    /\ \A n \in 1..AppMaxFails :
          (app.pc = "wait" /\ app.fails = n) ~> (app.pc = "poll" /\ app.fails = n)

\* the poll after as many consecutive failed polls as are counted
C26_Witness ==
    /\ app.pc = "poll" /\ app.fails = AppMaxFails
    /\ app.led = [valid |-> TRUE, comm_ok |-> FALSE]
    /\ app.logged = 0

\* C27: a poll that returns failure has changed nothing of the driver's data, so
\* every getter returns what it returned before the poll, and the peaks are still
\* at least the absolute pack current and power the getters return.
C27_FailedPollLeavesTelemetry ==
    (PollReturned /\ result = "fail") =>
        /\ ~dirty
        /\ Peak.current >= Abs(Sample.current)
        /\ Peak.power >= Abs(Sample.power)

\* C28: a Daly step decodes only a response to the command it has just sent: a
\* frame with a valid checksum whose command byte (offset 2) is that of another
\* command is not accepted and leaves the step's fields as they were.
C28_OnlyAnswerToOwnCommandDecoded ==
    (out.fn \in DalyStepSet /\ At(arg.buf, 2) # DalyCmdId(out.fn)) =>
        /\ ~out.ok
        /\ out.d = [DalyDataInit EXCEPT !.numberOfCells = arg.n,
                                        !.numOfTempSensors = arg.n]

\* C29: every attempt of a JBD step transmits the request frame before it reads, so
\* at any moment of a poll at least as many request frames have been transmitted as
\* reads have been made, each read answering the frame of its own attempt.
C29_EveryAttemptTransmitsRequest ==
    vendor = "JBD" =>
        /\ Len(sent) >= reads.hw + reads.cell
        /\ \A k \in 1..(reads.hw + reads.cell) :
              k <= Len(sent) =>
                  sent[k] = jbd_cmd(JBD_CMD_READ,
                                    IF k <= reads.hw THEN JBD_CMD_HWINFO ELSE JBD_CMD_CELLINFO,
                                    <<>>)

\* C30: the polling interval is always 1000 ms or 10000 ms and is the period of the
\* running timer; after a successful poll it is 1000 ms if |current| > 0.5 A or
\* |power| > 10 W and 10000 ms otherwise; a failed poll leaves the interval and
\* the running timer as they were.
C30_IntervalFollowsActivity ==
    /\ [](/\ app.interval \in {1000, 10000}
          /\ app.timer = app.interval
          /\ (app.pc = "wait" /\ app.last.result = "ok") =>
                app.interval = IF Abs(app.last.current) > 50 \/ Abs(app.last.power) > 100000
                               THEN 1000 ELSE 10000)
    /\ [][AppPollFailed =>
             /\ app'.interval = app.interval /\ app'.timer = app.timer
             /\ ~app'.restarted]_vars

\* a poll that read 0.5 A at 20.01 V: active by power alone, the timer restarted
C30_Witness ==
    /\ app.pc = "wait" /\ app.last.result = "ok"
    /\ Abs(app.last.current) = 50 /\ Abs(app.last.power) > 100000
    /\ app.interval = INTERVAL_ACTIVE_MS /\ app.restarted


\* C31: while a takeover (or a manual override) with an animated pattern is the
\* indicator run_ selected and last applied, and no event changes the
\* snapshot, an animation that is running on the pixel (or that the pixel's
\* worker will run once it has read the commands it was sent) keeps running:
\* no step of the status LED task stops it.
C31_TakeoverAnimationKeepsRunning ==
    [][LET want(l) == LET c == apply_pattern(<<>>, LED_BRIGHTNESS, l.last)
                      IN  c[Len(c)]
           settles(l) == IF l.cmds # <<>> THEN l.cmds[Len(l.cmds)]
                         ELSE IF l.running # "NONE" THEN l.cur
                         ELSE NoCommand
           snapshot(l) == <<l.override_active, l.ov, l.have_ota, l.ota_status,
                            l.have_bms, l.bms>>
       IN  (/\ led.sel.kind \in {"takeover", "override"}
            /\ led.sel.di = led.last
            /\ led.last.pattern \in {"SLOW_PULSE", "FAST_BLINK", "BREATHE"}
            /\ settles(led) = want(led)
            /\ snapshot(led') = snapshot(led))
           => settles(led') = want(led)]_vars

\* C32: the iteration of run_ selects the indicator of the first active
\* condition in the order manual override, OTA failed or rolled back, BMS
\* communication failure, over- or under-voltage critical, temperature >= 70,
\* MOSFET fault, SOC in [0, 20), cell delta > 0.20 V, temperature in [55, 70)
\* (the BMS conditions being those of the last valid report), and plays a
\* badge, shows OFF or lets a badge finish only when no condition is active.
C32_HighestPriorityConditionSelected ==
    LET b == led.bms
        active ==
            {p \in 1..9 :
                CASE p = 1 -> led.override_active
                  [] p = 2 -> led.have_ota /\ led.ota_status \in {kOTA_FAILED, kOTA_ROLLBACK}
                  [] p = 3 -> led.have_bms /\ ~b.comm_ok
                  [] p = 4 -> led.have_bms /\ (b.ov_critical \/ b.uv_critical)
                  [] p = 5 -> led.have_bms /\ b.max_temp_c >= 70
                  [] p = 6 -> led.have_bms /\ b.mosfet_fault
                  [] p = 7 -> led.have_bms /\ 0 <= b.soc_pct /\ b.soc_pct < 20
                  [] p = 8 -> led.have_bms /\ b.cell_delta_v > 20
                  [] p = 9 -> led.have_bms /\ 55 <= b.max_temp_c /\ b.max_temp_c < 70}
        indicator ==
            <<led.ov,
              DesiredIndicator("FAST_BLINK", 128, 0, 128),
              DesiredIndicator("FAST_BLINK", 255, 0, 0),
              DesiredIndicator("SOLID", 255, 0, 0),
              DesiredIndicator("SLOW_PULSE", 255, 0, 0),
              DesiredIndicator("FAST_BLINK", 255, 0, 0),
              DesiredIndicator("SLOW_PULSE", 255, 165, 0),
              DesiredIndicator("FAST_BLINK", 255, 165, 0),
              DesiredIndicator("BREATHE", 255, 165, 0)>>
    IN  led.sel.kind # "none" =>
            IF active = {}
            THEN led.sel.kind \in {"badge", "idle", "busy"}
            ELSE LET first == CHOOSE p \in active : \A q \in active : p <= q
                 IN  /\ led.sel.kind = (IF first = 1 THEN "override" ELSE "takeover")
                     /\ led.sel.di = indicator[first]

\* a takeover was selected with the critical temperature and the MOSFET fault
\* both active
C32_Witness ==
    /\ led.sel.kind = "takeover"
    /\ led.have_bms /\ led.bms.max_temp_c >= 70 /\ led.bms.mosfet_fault
    /\ led.sel.di = DesiredIndicator("SLOW_PULSE", 255, 0, 0)

\* C33: the number of pending badges stays below a bound: here, while a manual
\* override is active, below the number at which the model stops feeding events.
C33_PendingBadgesBounded ==
    led.override_active => Len(led.pending_badges) < LedMaxBadges


\* C34: at most one OTA update task exists at any time, and a call of
\* ota_manager_start_update returns ESP_OK only if no update task existed
\* when it tested the status.
C34_AtMostOneUpdateTask ==
    /\ OtaTasks(ota) <= 1
    /\ \A c \in OtaCallers : ota.ret[c] = "ESP_OK" => ~ota.busy[c]

\* C35: a call of ota_manager_start_update made after an update task ended
\* in failure, with no other API call in between, returns
\* ESP_ERR_INVALID_STATE only if another update task existed when it tested
\* the status.
C35_AcceptedAgainAfterFailedUpdate ==
    \A c \in OtaCallers :
        (ota.ret[c] = "ESP_ERR_INVALID_STATE" /\ ota.after_failure[c]) => ota.busy[c]


C37_StartResultReflectsThisCall ==
    /\ wifi.ret.code = "ESP_OK" => (wifi.ret.got_ip \/ wifi.ret.state = "CONNECTED")
    /\ wifi.ret.code = "ESP_ERR_WIFI_CONN" =>
            (wifi.ret.exhausted \/ wifi.ret.state = "FAILED")
    /\ wifi.ret.code \in {"none", "ESP_OK", "ESP_ERR_WIFI_CONN", "ESP_ERR_TIMEOUT"}


\* C38: no log file on the card holds more than max_lines_per_file data lines.
C38_NoFileExceedsMaxLines ==
    \A n \in SdNames : sd.files[n] <= SdMaxLines


\* C39: messages are published in the order they were written: when write has
\* published its line, no message written before it is still in the ring buffer.
C39_PublishedInWriteOrder ==
    mqtt.direct => \A i \in 1..mqtt.buffer_count : MqttBuffered(mqtt)[i] >= mqtt.written

====
